---- MODULE Spec2Model ----
(***************************************************************************)
(* A model of the resilient pipeline-orchestration layer:                  *)
(*   core/master_orchestrator.py  MasterOrchestrator.create_project and    *)
(*                                its six phases,                          *)
(*   core/comprehensive_agent_factory.py  create_agent_team,               *)
(*   core/rate_limiting.py        RateLimiter and ConcurrencyManager.      *)
(*                                                                         *)
(* Four specifications share the module:                                  *)
(*   Spec      the orchestrator: successive create_project invocations;    *)
(*   SpecTasks _create_project_tasks as a pure function of team and type;  *)
(*   SpecRate  the RateLimiter's sliding window;                           *)
(*   SpecConc  callers of ConcurrencyManager.execute at their await points.*)
(***************************************************************************)
EXTENDS Integers, Sequences, FiniteSets, TLC

VARIABLES
    now,               \* the wall clock, in whole seconds (time.time(), datetime.now())
    \* ---- MasterOrchestrator ----
    calls,             \* create_project invocations started so far
    pc,                \* where the current invocation stands: a phase, or how it ended
    requirements,      \* project_requirements of the current invocation
    project_id,        \* locals of create_project: None until assigned
    project_plan,
    workspace_path,
    agents,
    tasks,
    execution_result,
    raised,            \* the exception that ended the invocation, if any
    phases,            \* history: the phases started by the current invocation, in order
    premature,         \* history: a phase started before its predecessor's artifact existed
    engine,            \* crew.kickoff(): "idle", "running", "returned", "raised", "interrupted"
    result,            \* the dict the current invocation returned (None until it returns)
    issued,            \* history: the project ids generated, one per invocation
    fs,                \* the workspaces on disk: path -> directories, metadata, files, writers
    execution_stats,   \* successful_projects / failed_projects
    error_history,     \* ErrorHandler.error_history (the persisted error log)
    project_templates, \* ComprehensiveAgentFactory.project_templates
    \* ---- RateLimiter ----
    request_history,   \* provider -> timestamps kept by the limiter
    recorded,          \* history: provider -> every timestamp ever passed to log_request
    checked,           \* the check_rate_limit call just made: provider, time, answer
    api_stats,         \* .orchestrator/api_stats.json: provider -> requests, tokens
    \* ---- ConcurrencyManager ----
    cpc,               \* caller -> "idle", "sleeping", "acquiring", "running"
    cprovider,         \* caller -> the provider of its call
    wake_at,           \* caller -> when its asyncio.sleep ends
    sem_value,         \* asyncio.Semaphore._value
    sem_waiters,       \* asyncio.Semaphore._waiters, in arrival order
    sem_woken,         \* waiters whose future was resolved by _wake_up_next
    active_requests,   \* ConcurrencyManager.active_requests
    started,           \* execute calls started so far
    last_exit,         \* history: how the execute call that ended last ended
    \* ---- CircuitBreaker ----
    failure_threshold, \* the constructor's failure_threshold
    state,             \* "CLOSED", "OPEN", "HALF_OPEN"
    failure_count,
    last_failure_time, \* None until a call has failed
    bpc,               \* caller -> "idle", or "operation" while it awaits coro_func
    breaker_calls,     \* calls of CircuitBreaker.call started so far
    failed_calls,      \* history: calls that failed since the breaker was last CLOSED with count 0
    trial_invocations, \* history: operations started in the present HALF_OPEN episode
    last_call,         \* history: the breaker step just taken, and the fields before it
    \* ---- RetryStrategy ----
    strategy,          \* max_retries, base_delay, max_delay, exponential_base
    rpc,               \* execute_with_retry: "idle", "attempting", "sleeping", "done"
    attempt,           \* the loop variable of execute_with_retry
    last_error,        \* None, or the exception caught last
    attempt_errors,    \* history: the exception each attempt raised
    slept,             \* history: the delays slept between attempts
    retry_outcome,     \* how execute_with_retry ended
    computed,          \* the calculate_delay call just made, until execute_with_retry starts
    \* ---- ErrorHandler ----
    error_log_file,    \* .orchestrator/error_log.json on disk: kind of content, records
    handler_history,   \* instance -> None before construction, then its error_history
    logged,            \* history: every record a log_error call appended, in order
    save_failed,       \* history: a _save_error_log could not write the file
    handler_step,      \* history: the ErrorHandler call just made, and the file before it
    \* ---- the asyncio event loop ----
    loop_status,       \* task -> "pending", "kickoff", "sleeping", "ready", "done"
    loop_thread,       \* the task whose code holds the loop's thread, None between steps
    loop_sleeps,       \* task -> asyncio.sleep calls it has made
    \* ---- a burst of admission checks ----
    burst,             \* history: provider -> the answers of the checks made this second
    \* ---- the statistics on disk ----
    stats_dir,         \* <workspace>/.orchestrator: "directory", "missing", "file", "forbidden"
    stats_file,        \* api_stats.json: "missing", "valid", "corrupt", "list", "unwritable"
    log_outcome,       \* history: the log_request call just made, and how it ended
    \* ---- the complexity assessment ----
    description,       \* requirements["description"], a sequence of characters
    custom_reqs,       \* requirements["custom_requirements"], a list of such sequences
    complexity,        \* None, then what _assess_project_complexity returned
    \* ---- the quality score ----
    all_files,         \* workspace.rglob("*"): the entries below the workspace
    quality_score      \* None, then what _calculate_quality_score returned

orchVars == <<calls, pc, requirements, project_id, project_plan, workspace_path, agents,
              tasks, execution_result, raised, phases, premature, engine, result, issued, fs,
              execution_stats, error_history, project_templates>>
rateVars == <<request_history, recorded, checked, api_stats>>
concVars == <<cpc, cprovider, wake_at, sem_value, sem_waiters, sem_woken,
              active_requests, started, last_exit>>
breakerVars == <<failure_threshold, state, failure_count, last_failure_time, bpc, breaker_calls, failed_calls,
                 trial_invocations, last_call>>
retryVars == <<strategy, rpc, attempt, last_error, attempt_errors, slept, retry_outcome,
               computed>>
handlerVars == <<error_log_file, handler_history, logged, save_failed, handler_step>>
loopVars == <<loop_status, loop_thread, loop_sleeps>>
burstVars == <<burst>>
statsVars == <<stats_dir, stats_file, log_outcome>>
complexityVars == <<description, custom_reqs, complexity>>
qualityVars == <<all_files, quality_score>>
laterVars == <<loopVars, burstVars, statsVars, complexityVars, qualityVars>>
recoveryVars == <<breakerVars, retryVars, handlerVars, laterVars>>
vars == <<now, orchVars, rateVars, concVars, recoveryVars>>

(***************************************************************************)
(* Bounds of the model.                                                    *)
(***************************************************************************)
MaxProjects == 2       \* create_project invocations explored
MaxTime == 1           \* seconds the orchestrator's clock may advance

(***************************************************************************)
(* Python values.                                                          *)
(***************************************************************************)
None == <<>>
Some(v) == <<v>>
IsNone(o) == o = <<>>
Get(o, default) == IF o = <<>> THEN default ELSE o[1]

Min(a, b) == IF a <= b THEN a ELSE b
Max(a, b) == IF a >= b THEN a ELSE b
Last(s) == s[Len(s)]
IsPrefix(s, t) == Len(s) <= Len(t) /\ SubSeq(t, 1, Len(s)) = s
Range(s) == {s[i] : i \in 1..Len(s)}

\* s[:n]
Slice(s, n) == SubSeq(s, 1, Min(n, Len(s)))

\* list(dict.fromkeys(s)): duplicates removed, first occurrences kept in order
RECURSIVE Dedupe(_)
Dedupe(s) ==
    IF s = <<>> THEN <<>>
    ELSE <<Head(s)>> \o Dedupe(SelectSeq(Tail(s), LAMBDA x : x # Head(s)))

\* the orderings of a finite set, as sequences: what list(set(...)) may return
Orderings(S) ==
    {q \in [1..Cardinality(S) -> S] : \A i, j \in 1..Cardinality(S) : i # j => q[i] # q[j]}

(***************************************************************************)
(* Strings whose characters matter are sequences of characters.            *)
(***************************************************************************)
WebApplication == <<"w","e","b","_","a","p","p","l","i","c","a","t","i","o","n">>
ComputerVision == <<"c","o","m","p","u","t","e","r","_","v","i","s","i","o","n">>
MobileApp == <<"m","o","b","i","l","e","_","a","p","p">>
GameDevelopment == <<"g","a","m","e","_","d","e","v","e","l","o","p","m","e","n","t">>
DappDevelopment == <<"d","a","p","p","_","d","e","v","e","l","o","p","m","e","n","t">>
Custom == <<"c","u","s","t","o","m">>
\* a custom project type as typed at main.py's prompt: "/opt/projects/crm"
SrvTool == <<"/","o","p","t","/","p","r","o","j","e","c","t","s","/","c","r","m">>

\* Exceptions: the class, whether `except Exception` catches it, and args
TimeoutError == [type |-> "TimeoutError", is_exception |-> TRUE, args |-> <<>>]
ValueError == [type |-> "ValueError", is_exception |-> TRUE, args |-> <<"invalid value">>]
KeyboardInterrupt == [type |-> "KeyboardInterrupt", is_exception |-> FALSE, args |-> <<>>]
Exceptions == {TimeoutError, ValueError}

\* str(e): the empty string for an exception raised without arguments
Str(e) == IF e.args = <<>> THEN "" ELSE e.args[1]

(***************************************************************************)
(* ComprehensiveAgentFactory: the role tables and create_agent_team.       *)
(***************************************************************************)
\* project_templates as built by __init__ (the entries of the modelled types)
InitialProjectTemplates ==
    (WebApplication :> <<"system_architect", "backend_developer", "frontend_developer",
                         "qa_engineer", "devops_engineer">>)
    @@ (ComputerVision :> <<"cv_specialist", "data_scientist", "ml_engineer">>)

\* the fallback of project_templates.get in create_agent_team
DefaultRoles == <<"system_architect", "backend_developer", "qa_engineer", "devops_engineer">>

\* agent_roles: each role's title and the task-category keywords of
\* _create_project_tasks that occur in the lower-cased title
agent_roles ==
    [r \in {"system_architect", "backend_developer", "frontend_developer", "qa_engineer",
            "devops_engineer", "cv_specialist", "data_scientist", "ml_engineer",
            "api_specialist", "data_engineer", "security_architect", "mobile_architect"} |->
        CASE r = "system_architect" -> [title |-> "Senior System Architect", matches |-> {"architect"}]
          [] r = "backend_developer" -> [title |-> "Senior Backend Developer", matches |-> {"core"}]
          [] r = "frontend_developer" -> [title |-> "Senior Frontend Developer", matches |-> {"ui"}]
          [] r = "qa_engineer" -> [title |-> "Senior QA Engineer", matches |-> {"qa"}]
          [] r = "devops_engineer" -> [title |-> "DevOps Engineering Specialist", matches |-> {"devops"}]
          [] r = "cv_specialist" -> [title |-> "Computer Vision Specialist", matches |-> {}]
          [] r = "data_scientist" -> [title |-> "Senior Data Scientist", matches |-> {}]
          [] r = "ml_engineer" -> [title |-> "Machine Learning Engineer", matches |-> {}]
          [] r = "api_specialist" -> [title |-> "API Design Specialist", matches |-> {}]
          [] r = "data_engineer" -> [title |-> "Senior Data Engineer", matches |-> {"core"}]
          [] r = "security_architect" -> [title |-> "Cybersecurity Solutions Architect", matches |-> {"architect", "qa"}]
          [] r = "mobile_architect" -> [title |-> "Mobile Solutions Architect", matches |-> {"architect", "ui"}]]

\* requirement_mapping of _analyze_custom_requirements (the keywords the modelled
\* requirements contain)
requirement_mapping ==
    [k \in {"frontend", "api"} |->
        IF k = "frontend" THEN <<"frontend_developer">>
        ELSE <<"api_specialist", "backend_developer">>]

\* the keywords of requirement_mapping that occur in a lower-cased requirement
KeywordsIn(requirement) ==
    CASE requirement = "frontend" -> {"frontend"}
      [] requirement = "rest api" -> {"api"}
      [] OTHER -> {}

\* _analyze_custom_requirements returns list(set(additional_roles)): the set of
\* roles, in an order the build chooses
_analyze_custom_requirements(reqs) ==
    Orderings(UNION {Range(requirement_mapping[k]) :
                        k \in UNION {KeywordsIn(reqs[i]) : i \in 1..Len(reqs)}})

\* base_roles after `base_roles.extend(additional_roles)`
ExtendedRoles(templates, project_type, custom_requirements, additional) ==
    LET base_roles == IF project_type \in DOMAIN templates THEN templates[project_type]
                      ELSE DefaultRoles
    IN IF custom_requirements # <<>> THEN base_roles \o additional ELSE base_roles

\* base_roles is the template's own list, so extending it changes the template
TemplatesAfterTeam(templates, project_type, custom_requirements, additional) ==
    IF project_type \in DOMAIN templates
    THEN [templates EXCEPT ![project_type] =
              ExtendedRoles(templates, project_type, custom_requirements, additional)]
    ELSE templates

\* the agents created: one per distinct known role, in order; an agent is
\* modelled by its role
create_agent_team(templates, project_type, custom_requirements, additional) ==
    SelectSeq(Dedupe(ExtendedRoles(templates, project_type, custom_requirements, additional)),
              LAMBDA role : role \in DOMAIN agent_roles)

RoleMatches(agent, category) == category \in agent_roles[agent].matches

(***************************************************************************)
(* MasterOrchestrator: helpers of create_project.                          *)
(***************************************************************************)
workspace_base == "workspace"

\* requirements.get("type", default)
TypeOf(req, default) == Get(req.type, default)

\* f"{project_type}_{timestamp}" with project_type cut to its first 10 characters
_generate_project_id(req, t) == [project_type |-> Slice(TypeOf(req, Custom), 10), timestamp |-> t]

\* the id, as a path component, is absolute when its first character is "/"
IsAbsolute(id) == id.project_type # <<>> /\ id.project_type[1] = "/"

\* Path(base) / id: an absolute right operand replaces the left one
PathJoin(base, id) ==
    IF IsAbsolute(id) THEN [anchor |-> "/", name |-> id] ELSE [anchor |-> base, name |-> id]

\* f"{base}/{id}": always below base
FString(base, id) == [anchor |-> base, name |-> id]

\* _analyze_project_requirements: the resource estimates of the plan
_analyze_project_requirements(req, templates) ==
    LET project_type == TypeOf(req, WebApplication)
        estimated_agents == IF project_type \in DOMAIN templates
                            THEN Len(templates[project_type]) ELSE 0
    IN [estimated_agents |-> estimated_agents,
        estimated_tasks |-> estimated_agents * 2,
        estimated_api_calls |-> estimated_agents * 2 * 10]

\* the directories _setup_project_workspace creates ("." is the workspace itself)
Directories == {".", "src", "docs", "tests", "config", "scripts", "assets", ".orchestrator"}

NoWorkspace == [dirs |-> {}, metadata |-> None, files |-> {}, writers |-> {}]
Workspace(disk, path) == IF path \in DOMAIN disk THEN disk[path] ELSE NoWorkspace
WriteWorkspace(disk, path, w) ==
    [q \in DOMAIN disk \cup {path} |-> IF q = path THEN w ELSE disk[q]]

\* mkdir(parents=True, exist_ok=True) of every directory, by invocation `who`
MakeDirectories(disk, path, who) ==
    LET w == Workspace(disk, path)
    IN WriteWorkspace(disk, path, [w EXCEPT !.dirs = @ \cup Directories,
                                            !.writers = @ \cup {who}])

\* open(metadata_file, 'w'); json.dump(metadata, f): the file holds the one
\* record just written, whatever it held before
WriteMetadataAppended(disk, path, id, plan) ==
    LET w == Workspace(disk, path)
    IN WriteWorkspace(disk, path,
           [w EXCEPT !.metadata = Append(@, [project_id |-> id, project_plan |-> plan,
                                            status |-> "in_progress"])])
WriteMetadata(disk, path, id, plan) ==
    LET w == Workspace(disk, path)
    IN WriteWorkspace(disk, path,
           [w EXCEPT !.metadata = Some([project_id |-> id, project_plan |-> plan,
                                        status |-> "in_progress"])])

\* files written below the workspace
WriteFiles(disk, path, names, who) ==
    LET w == Workspace(disk, path)
    IN WriteWorkspace(disk, path, [w EXCEPT !.files = @ \cup names,
                                            !.writers = @ \cup {who}])

(***************************************************************************)
(* _create_project_tasks.  A Task is [id, kind, agent, context]; context   *)
(* is the list of the ids of the tasks it depends on.                      *)
(***************************************************************************)
Matching(team, categories) ==
    SelectSeq(team, LAMBDA a : \E c \in categories : RoleMatches(a, c))

\* Task(..., context=tasks) with id the next free one: the Task model keeps its
\* own copy of the list it is given, so the context is the list as it is now
TaskContextAppended(ts) == [i \in 1..(Len(ts) + 1) |-> i]
TaskContext(ts) == [i \in 1..Len(ts) |-> ts[i].id]

NewTask(ts, kind, agent, context) ==
    Append(ts, [id |-> Len(ts) + 1, kind |-> kind, agent |-> agent, context |-> context])

\* project types that get a user-interface task
UiProjectTypes == {WebApplication, MobileApp, GameDevelopment, DappDevelopment}

\* Task 1: architecture, for the first agent whose role contains "architect"
ArchitectureTasks(team) ==
    LET architects == Matching(team, {"architect"})
    IN IF architects # <<>> THEN NewTask(<<>>, "architecture", architects[1], <<>>) ELSE <<>>

\* Task 2: core development, for at most two core agents; each depends on
\* arch_task when that local exists
RECURSIVE CoreTasks(_, _, _)
CoreTasks(ts, core_agents, arch_context) ==
    IF core_agents = <<>> THEN ts
    ELSE CoreTasks(NewTask(ts, "core", core_agents[1], arch_context),
                   SubSeq(core_agents, 2, Len(core_agents)), arch_context)

_create_project_tasks(team, project_type) ==
    LET t1 == ArchitectureTasks(team)
        arch_context == IF t1 # <<>> THEN <<t1[1].id>> ELSE <<>>
        t2 == CoreTasks(t1, Slice(Matching(team, {"core"}), 2), arch_context)
        ui_agents == Matching(team, {"ui"})
        t3 == IF ui_agents # <<>> /\ project_type \in UiProjectTypes
              THEN NewTask(t2, "ui", ui_agents[1], TaskContext(t2)) ELSE t2
        qa_agents == Matching(team, {"qa"})
        t4 == IF qa_agents # <<>> THEN NewTask(t3, "qa", qa_agents[1], TaskContext(t3)) ELSE t3
        devops_agents == Matching(team, {"devops"})
    IN IF devops_agents # <<>> THEN NewTask(t4, "devops", devops_agents[1], TaskContext(t4))
       ELSE t4

\* _attempt_recovery's message
_attempt_recovery(ts, path) == <<"Partial completion", Len(ts), path>>

\* _handle_project_error
_handle_project_error_no_id(error, id) ==
    [success |-> FALSE, project_id |-> None, error |-> Some(Str(error)),
     workspace_path |-> None, partial_workspace |-> Some(FString(workspace_base, id)),
     agents_used |-> None, tasks_completed |-> None]
_handle_project_error(error, id) ==
    [success |-> FALSE, project_id |-> Some(id), error |-> Some(Str(error)),
     workspace_path |-> None, partial_workspace |-> Some(FString(workspace_base, id)),
     agents_used |-> None, tasks_completed |-> None]

\* the dict create_project returns on success
SuccessResult(id, path, team, ts) ==
    [success |-> TRUE, project_id |-> Some(id), error |-> None,
     workspace_path |-> Some(path), partial_workspace |-> None,
     agents_used |-> Some(Len(team)), tasks_completed |-> Some(Len(ts))]

(***************************************************************************)
(* create_project as a state machine.  Nothing inside create_project       *)
(* suspends (the phases contain no await that yields and crew.kickoff() is *)
(* a blocking call), so invocations on one event loop run one after the    *)
(* other; only the clock moves meanwhile.                                  *)
(***************************************************************************)
PhaseOrder == <<"Analyzing", "SettingUpWorkspace", "AssemblingTeam", "BuildingTaskGraph",
                "Executing", "Validating">>
Ended == {"Completed", "Failed", "Propagated"}

\* the statement create_project reaches when the phase `ph` has returned
NextPhaseSkipValidation(ph) ==
    CASE ph = "Requested" -> "Analyzing"
      [] ph = "Analyzing" -> "SettingUpWorkspace"
      [] ph = "SettingUpWorkspace" -> "AssemblingTeam"
      [] ph = "AssemblingTeam" -> "BuildingTaskGraph"
      [] ph = "BuildingTaskGraph" -> "Executing"
      [] ph = "Executing" -> "Completed"
      [] ph = "Validating" -> "Completed"
NextPhase(ph) ==
    CASE ph = "Requested" -> "Analyzing"
      [] ph = "Analyzing" -> "SettingUpWorkspace"
      [] ph = "SettingUpWorkspace" -> "AssemblingTeam"
      [] ph = "AssemblingTeam" -> "BuildingTaskGraph"
      [] ph = "BuildingTaskGraph" -> "Executing"
      [] ph = "Executing" -> "Validating"
      [] ph = "Validating" -> "Completed"

\* the inputs explored
ProjectTypes == {Some(WebApplication), Some(ComputerVision), Some(SrvTool)}
CustomRequirements == {<<>>, <<"frontend">>}
Requests == [type : ProjectTypes, custom_requirements : CustomRequirements]

\* what the Execution Engine's agents may have written when kickoff ends
EngineOutputs == {{"README.md", "src/main.py"}}

OrchOnly == UNCHANGED <<rateVars, concVars, recoveryVars>>

InitOrchWith(templates) ==
    /\ calls = 0
    /\ pc = "Requested"
    /\ requirements = None
    /\ project_id = None
    /\ project_plan = None
    /\ workspace_path = None
    /\ agents = None
    /\ tasks = None
    /\ execution_result = None
    /\ raised = None
    /\ phases = <<>>
    /\ premature = FALSE
    /\ engine = "idle"
    /\ result = None
    /\ issued = <<>>
    /\ fs = <<>>
    /\ execution_stats = [successful_projects |-> 0, failed_projects |-> 0]
    /\ error_history = <<>>
    /\ project_templates = templates

InitOrch == InitOrchWith(InitialProjectTemplates)

\* time passes; create_project reads the clock only as it starts (the
\* execution_time it reports is not modelled), so the clock is moved between
\* invocations
Tick ==
    /\ pc \in Ended \cup {"Requested"}
    /\ now < MaxTime
    /\ now' = now + 1
    /\ UNCHANGED orchVars
    /\ OrchOnly

\* lines 36-52: a caller invokes create_project
CreateProject(req) ==
    /\ pc \in Ended \cup {"Requested"}
    /\ calls < MaxProjects
    /\ calls' = calls + 1
    /\ requirements' = Some(req)
    /\ project_id' = Some(_generate_project_id(req, now))
    /\ project_plan' = None
    /\ workspace_path' = None
    /\ agents' = None
    /\ tasks' = None
    /\ execution_result' = None
    /\ raised' = None
    /\ phases' = <<>>
    /\ premature' = FALSE
    /\ engine' = "idle"
    /\ result' = None
    /\ issued' = Append(issued, _generate_project_id(req, now))
    /\ pc' = NextPhase("Requested")
    /\ UNCHANGED <<now, fs, execution_stats, error_history, project_templates>>
    /\ OrchOnly

\* lines 103-117: the except clause of create_project
ExceptHandler(e) ==
    /\ raised' = Some(e)
    /\ execution_stats' = [execution_stats EXCEPT !.failed_projects = @ + 1]
    /\ result' = Some(_handle_project_error(e, project_id[1]))
    /\ UNCHANGED issued
    /\ pc' = "Failed"

\* the phase that starts now, and whether the artifact it is handed exists
Begin(ph, input) ==
    /\ pc = ph
    /\ phases' = Append(phases, ph)
    /\ premature' = (premature \/ IsNone(input))

\* Phase 1
Analyze ==
    /\ Begin("Analyzing", requirements)
    /\ project_plan' = Some(_analyze_project_requirements(requirements[1], project_templates))
    /\ pc' = NextPhase("Analyzing")
    /\ UNCHANGED <<now, calls, requirements, project_id, workspace_path, agents, tasks,
                   execution_result, raised, engine, result, issued, fs, execution_stats,
                   error_history, project_templates>>
    /\ OrchOnly

AnalyzeRaises(e) ==
    /\ Begin("Analyzing", requirements)
    /\ ExceptHandler(e)
    /\ UNCHANGED <<now, calls, requirements, project_id, project_plan, workspace_path, agents,
                   tasks, execution_result, engine, fs, error_history, project_templates>>
    /\ OrchOnly

\* Phase 2
SetupWorkspace ==
    /\ Begin("SettingUpWorkspace", project_plan)
    /\ LET path == PathJoin(workspace_base, project_id[1])
       IN /\ fs' = WriteMetadata(MakeDirectories(fs, path, calls), path,
                                 project_id[1], Get(project_plan, None))
          /\ workspace_path' = Some(path)
    /\ pc' = NextPhase("SettingUpWorkspace")
    /\ UNCHANGED <<now, calls, requirements, project_id, project_plan, agents, tasks,
                   execution_result, raised, engine, result, issued, execution_stats,
                   error_history, project_templates>>
    /\ OrchOnly

\* mkdir raises at the first directory, or the metadata file cannot be written
SetupWorkspaceRaises(e, made) ==
    /\ Begin("SettingUpWorkspace", project_plan)
    /\ fs' = IF made THEN MakeDirectories(fs, PathJoin(workspace_base, project_id[1]), calls)
             ELSE fs
    /\ ExceptHandler(e)
    /\ UNCHANGED <<now, calls, requirements, project_id, project_plan, workspace_path, agents,
                   tasks, execution_result, engine, error_history, project_templates>>
    /\ OrchOnly

\* Phase 3
AssembleTeam(additional) ==
    /\ Begin("AssemblingTeam", workspace_path)
    /\ LET project_type == TypeOf(requirements[1], WebApplication)
           custom == requirements[1].custom_requirements
       IN /\ agents' = Some(create_agent_team(project_templates, project_type, custom, additional))
          /\ project_templates' = TemplatesAfterTeam(project_templates, project_type, custom,
                                                     additional)
    /\ pc' = NextPhase("AssemblingTeam")
    /\ UNCHANGED <<now, calls, requirements, project_id, project_plan, workspace_path, tasks,
                   execution_result, raised, engine, result, issued, fs, execution_stats,
                   error_history>>
    /\ OrchOnly

\* an Agent cannot be constructed: the roles were extended before
AssembleTeamRaises(e, additional) ==
    /\ Begin("AssemblingTeam", workspace_path)
    /\ project_templates' = TemplatesAfterTeam(project_templates,
                                TypeOf(requirements[1], WebApplication),
                                requirements[1].custom_requirements, additional)
    /\ ExceptHandler(e)
    /\ UNCHANGED <<now, calls, requirements, project_id, project_plan, workspace_path, agents,
                   tasks, execution_result, engine, fs, error_history>>
    /\ OrchOnly

\* Phase 4
CreateTasks ==
    /\ Begin("BuildingTaskGraph", agents)
    /\ tasks' = Some(_create_project_tasks(Get(agents, <<>>),
                                           TypeOf(requirements[1], WebApplication)))
    /\ pc' = NextPhase("BuildingTaskGraph")
    /\ UNCHANGED <<now, calls, requirements, project_id, project_plan, workspace_path, agents,
                   execution_result, raised, engine, result, issued, fs, execution_stats,
                   error_history, project_templates>>
    /\ OrchOnly

CreateTasksRaises(e) ==
    /\ Begin("BuildingTaskGraph", agents)
    /\ ExceptHandler(e)
    /\ UNCHANGED <<now, calls, requirements, project_id, project_plan, workspace_path, agents,
                   tasks, execution_result, engine, fs, error_history, project_templates>>
    /\ OrchOnly

\* Phase 5, lines 479-501: the Crew is built and crew.kickoff() is called; the
\* call blocks until the engine is done
StartExecution ==
    /\ Begin("Executing", tasks)
    /\ engine = "idle"
    /\ engine' = "running"
    /\ UNCHANGED <<now, calls, pc, requirements, project_id, project_plan, workspace_path,
                   agents, tasks, execution_result, raised, result, issued, fs, execution_stats,
                   error_history, project_templates>>
    /\ OrchOnly

\* lines 501-508: kickoff returns; the agents have written `files`
KickoffReturns(files) ==
    /\ pc = "Executing"
    /\ engine = "running"
    /\ engine' = "returned"
    /\ fs' = WriteFiles(fs, workspace_path[1], files, calls)
    /\ execution_result' = Some(<<"crew output">>)
    /\ pc' = NextPhase("Executing")
    /\ UNCHANGED <<now, calls, requirements, project_id, project_plan, workspace_path, agents,
                   tasks, raised, phases, premature, result, issued, execution_stats,
                   error_history, project_templates>>
    /\ OrchOnly

\* lines 510-516: kickoff raises e after the agents have written `files`; the
\* except clause returns _attempt_recovery's message as the phase's result
KickoffRaises(e, files) ==
    /\ pc = "Executing"
    /\ engine = "running"
    /\ engine' = "raised"
    /\ fs' = WriteFiles(fs, workspace_path[1], files, calls)
    /\ execution_result' = Some(_attempt_recovery(tasks[1], workspace_path[1]))
    /\ pc' = NextPhase("Executing")
    /\ UNCHANGED <<now, calls, requirements, project_id, project_plan, workspace_path, agents,
                   tasks, raised, phases, premature, result, issued, execution_stats,
                   error_history, project_templates>>
    /\ OrchOnly

\* Phase 6 and lines 77-101: the report is written and the success dict returned
Validate ==
    /\ Begin("Validating", execution_result)
    /\ fs' = WriteFiles(fs, workspace_path[1], {"PROJECT_REPORT.md"}, calls)
    /\ execution_stats' = [execution_stats EXCEPT !.successful_projects = @ + 1]
    /\ result' = Some(SuccessResult(project_id[1], workspace_path[1], agents[1], tasks[1]))
    /\ UNCHANGED issued
    /\ pc' = NextPhase("Validating")
    /\ UNCHANGED <<now, calls, requirements, project_id, project_plan, workspace_path, agents,
                   tasks, execution_result, raised, engine, error_history, project_templates>>
    /\ OrchOnly

ValidateRaises(e) ==
    /\ Begin("Validating", execution_result)
    /\ ExceptHandler(e)
    /\ UNCHANGED <<now, calls, requirements, project_id, project_plan, workspace_path, agents,
                   tasks, execution_result, engine, fs, error_history, project_templates>>
    /\ OrchOnly

\* a KeyboardInterrupt while crew.kickoff() runs: not an Exception, so neither
\* except clause catches it and it leaves create_project
Interrupt ==
    /\ pc = "Executing"
    /\ engine = "running"
    /\ engine' = "interrupted"
    /\ raised' = Some(KeyboardInterrupt)
    /\ pc' = "Propagated"
    /\ UNCHANGED <<now, calls, requirements, project_id, project_plan, workspace_path, agents,
                   tasks, execution_result, phases, premature, result, issued, fs, execution_stats,
                   error_history, project_templates>>
    /\ OrchOnly

\* the orderings _analyze_custom_requirements may return for the current request
Additional ==
    IF IsNone(requirements) THEN {}
    ELSE _analyze_custom_requirements(requirements[1].custom_requirements)

Next ==
    \/ Tick
    \/ \E req \in Requests : CreateProject(req)
    \/ Analyze
    \/ \E e \in Exceptions : AnalyzeRaises(e)
    \/ SetupWorkspace
    \/ \E e \in Exceptions, made \in BOOLEAN : SetupWorkspaceRaises(e, made)
    \/ \E additional \in Additional : AssembleTeam(additional)
    \/ \E e \in Exceptions, additional \in Additional : AssembleTeamRaises(e, additional)
    \/ CreateTasks
    \/ \E e \in Exceptions : CreateTasksRaises(e)
    \/ StartExecution
    \/ \E files \in EngineOutputs : KickoffReturns(files)
    \/ \E e \in Exceptions, files \in EngineOutputs : KickoffRaises(e, files)
    \/ Validate
    \/ \E e \in Exceptions : ValidateRaises(e)
    \/ Interrupt

(***************************************************************************)
(* core/rate_limiting.py: RateLimiter.  Timestamps are whole seconds.      *)
(***************************************************************************)
Window == 60           \* timedelta(minutes=1); also the 60 of _calculate_wait_time
SleepCap == 10         \* wait_if_needed sleeps min(wait_time, 10)
CallsPerMinute == 2    \* the calls_per_minute configured for the first provider
MaxTicks == 7          \* the limiter's clock is sampled every SleepCap seconds, this often
MaxRequests == 3       \* log_request calls explored

\* lines 20-24, with small limits in place of 20, 30 and 60
rate_limits ==
    [openrouter |-> [calls_per_minute |-> CallsPerMinute],
     groq       |-> [calls_per_minute |-> CallsPerMinute + 1]]

\* a provider named by a caller; "local" is configured nowhere
Providers == DOMAIN rate_limits \cup {"local"}

\* line 54: the test a logged timestamp must pass to be kept
StillCountedAlways(req_time, one_minute_ago) == TRUE
StillCountedInclusive(req_time, one_minute_ago) == req_time >= one_minute_ago
StillCounted(req_time, one_minute_ago) == req_time > one_minute_ago

\* lines 43-66: the history after the clean-up, and the answer
check_rate_limit(history, provider, t) ==
    IF provider \notin DOMAIN history
    THEN [request_history |-> history, answer |-> TRUE]
    ELSE LET one_minute_ago == t - Window
             kept == SelectSeq(history[provider],
                               LAMBDA req_time : StillCounted(req_time, one_minute_ago))
             limit == rate_limits[provider].calls_per_minute
         IN [request_history |-> [history EXCEPT ![provider] = kept],
             answer |-> ~(Len(kept) >= limit)]

\* lines 76-86
_calculate_wait_time(history, provider, t) ==
    IF history[provider] = <<>> THEN 0
    ELSE LET oldest_request == history[provider][1]
             elapsed == t - oldest_request
         IN Max(0, Window - elapsed)

\* lines 118-136, tokens_used = 0
_update_stats(stats, provider) ==
    LET before == IF provider \in DOMAIN stats THEN stats[provider]
                  ELSE [requests |-> 0, tokens |-> 0]
    IN [q \in DOMAIN stats \cup {provider} |->
           IF q = provider THEN [requests |-> before.requests + 1, tokens |-> before.tokens]
           ELSE stats[q]]

\* line 70
log_request(history, provider, t) == [history EXCEPT ![provider] = Append(@, t)]

TotalRecorded == Len(recorded.openrouter) + Len(recorded.groq)

InitRate ==
    /\ request_history = [p \in DOMAIN rate_limits |-> <<>>]
    /\ recorded = [p \in DOMAIN rate_limits |-> <<>>]
    /\ checked = None
    /\ api_stats = <<>>

\* time passes
Elapse ==
    /\ now < MaxTicks * SleepCap
    /\ now' = now + SleepCap
    /\ checked' = None
    /\ UNCHANGED <<request_history, recorded, api_stats, orchVars, concVars, recoveryVars>>

\* a call of check_rate_limit(provider)
CheckRateLimit(provider) ==
    LET r == check_rate_limit(request_history, provider, now)
    IN /\ request_history' = r.request_history
       /\ checked' = Some([provider |-> provider, at |-> now, answer |-> r.answer])
       /\ UNCHANGED <<now, recorded, api_stats, orchVars, concVars, recoveryVars>>

\* a call of log_request(provider) for a provider with a history
LogRequest(provider) ==
    /\ provider \in DOMAIN request_history
    /\ TotalRecorded < MaxRequests
    /\ request_history' = log_request(request_history, provider, now)
    /\ recorded' = log_request(recorded, provider, now)
    /\ api_stats' = _update_stats(api_stats, provider)
    /\ checked' = None
    /\ UNCHANGED <<now, orchVars, concVars, recoveryVars>>

NextRate ==
    \/ Elapse
    \/ \E provider \in Providers : CheckRateLimit(provider)
    \/ \E provider \in Providers : LogRequest(provider)

(***************************************************************************)
(* core/rate_limiting.py: ConcurrencyManager.  A caller of execute moves   *)
(* between its await points: the sleep of wait_if_needed, the acquire of   *)
(* `async with self.semaphore`, and `await coro`.                          *)
(***************************************************************************)
MaxConcurrent == 2     \* max_concurrent_requests given to the constructor
MaxCallers == 3        \* tasks that call execute
MaxCalls == 4          \* execute calls explored

max_concurrent == MaxConcurrent
Callers == 1..MaxCallers
CallerProviders == {"openrouter", "local"}

Remove(seq, c) == SelectSeq(seq, LAMBDA x : x # c)

\* asyncio.Semaphore.locked(): no permit left, or somebody is queued
lockedNever(value, waiters) == FALSE
locked(value, waiters) == value = 0 \/ waiters # <<>>

\* asyncio.Semaphore._wake_up_next(): hand a permit to the first waiter whose
\* future is still pending
_wake_up_last(value, waiters, woken) ==
    LET pending == SelectSeq(waiters, LAMBDA c : c \notin woken)
    IN IF pending = <<>> THEN [value |-> value, woken |-> woken]
       ELSE [value |-> value - 1, woken |-> woken \cup {pending[Len(pending)]}]
_wake_up_next(value, waiters, woken) ==
    LET pending == SelectSeq(waiters, LAMBDA c : c \notin woken)
    IN IF pending = <<>> THEN [value |-> value, woken |-> woken]
       ELSE [value |-> value - 1, woken |-> woken \cup {pending[1]}]

\* the end of acquire(): while self._value > 0, wake the next waiter
RECURSIVE WakeWhilePositive(_, _, _)
WakeWhilePositive(value, waiters, woken) ==
    IF value > 0 /\ \E i \in DOMAIN waiters : waiters[i] \notin woken
    THEN LET w == _wake_up_next(value, waiters, woken)
         IN WakeWhilePositive(w.value, waiters, w.woken)
    ELSE [value |-> value, woken |-> woken]

\* line 177, leaving the `async with`: asyncio.Semaphore.release()
release_nothing(value, waiters, woken) == [value |-> value, woken |-> woken]
release(value, waiters, woken) == _wake_up_next(value + 1, waiters, woken)

InitConcWith(max_concurrent_requests) ==
    /\ cpc = [c \in Callers |-> "idle"]
    /\ cprovider = [c \in Callers |-> "none"]
    /\ wake_at = [c \in Callers |-> 0]
    /\ sem_value = max_concurrent_requests
    /\ sem_waiters = <<>>
    /\ sem_woken = {}
    /\ active_requests = 0
    /\ started = 0
    /\ last_exit = "none"

InitConc == InitConcWith(max_concurrent)

\* line 94: asyncio.sleep(min(wait_time, 10))
SleepTimeUncapped(wait_time) == wait_time
SleepTime(wait_time) == Min(wait_time, SleepCap)

\* lines 175-178 from a check_rate_limit call on: refused, the caller sleeps
\* min(wait_time, 10); admitted, it takes a permit and starts the work, or
\* queues for a permit.  Nothing here suspends but the sleep and the queue.
WaitIfNeeded(c, provider) ==
    LET r == check_rate_limit(request_history, provider, now)
        wait_time == _calculate_wait_time(r.request_history, provider, now)
    IN /\ request_history' = r.request_history
       /\ checked' = Some([provider |-> provider, at |-> now, answer |-> r.answer])
       /\ IF ~r.answer
          THEN /\ cpc' = [cpc EXCEPT ![c] = "sleeping"]
               /\ wake_at' = [wake_at EXCEPT ![c] = now + SleepTime(wait_time)]
               /\ UNCHANGED <<sem_value, sem_waiters, active_requests>>
          ELSE /\ wake_at' = [wake_at EXCEPT ![c] = 0]
               /\ IF ~locked(sem_value, sem_waiters)
                  THEN /\ sem_value' = sem_value - 1
                       /\ active_requests' = active_requests + 1
                       /\ cpc' = [cpc EXCEPT ![c] = "running"]
                       /\ UNCHANGED sem_waiters
                  ELSE /\ sem_waiters' = Append(sem_waiters, c)
                       /\ cpc' = [cpc EXCEPT ![c] = "acquiring"]
                       /\ UNCHANGED <<sem_value, active_requests>>
       /\ UNCHANGED <<now, recorded, api_stats, sem_woken, last_exit, orchVars, recoveryVars>>

\* line 173: a task calls execute(coro, provider, rate_limiter)
Execute(c, provider) ==
    /\ cpc[c] = "idle"
    /\ started < MaxCalls
    /\ started' = started + 1
    /\ cprovider' = [cprovider EXCEPT ![c] = provider]
    /\ WaitIfNeeded(c, provider)

\* line 94: the sleep is over, wait_if_needed checks again
Wake(c) ==
    /\ cpc[c] = "sleeping"
    /\ now >= wake_at[c]
    /\ WaitIfNeeded(c, cprovider[c])
    /\ UNCHANGED <<started, cprovider>>

\* line 177: a queued caller whose future was resolved resumes in acquire
Granted(c) ==
    /\ cpc[c] = "acquiring"
    /\ c \in sem_woken
    /\ LET w == WakeWhilePositive(sem_value, Remove(sem_waiters, c), sem_woken \ {c})
       IN /\ sem_value' = w.value
          /\ sem_woken' = w.woken
    /\ sem_waiters' = Remove(sem_waiters, c)
    /\ active_requests' = active_requests + 1
    /\ cpc' = [cpc EXCEPT ![c] = "running"]
    /\ checked' = None
    /\ UNCHANGED <<now, request_history, recorded, api_stats, cprovider, wake_at, started,
                   last_exit, orchVars, recoveryVars>>

\* the caller is back outside execute
Leaves(c, how) ==
    /\ cpc' = [cpc EXCEPT ![c] = "idle"]
    /\ cprovider' = [cprovider EXCEPT ![c] = "none"]
    /\ wake_at' = [wake_at EXCEPT ![c] = 0]
    /\ last_exit' = how
    /\ checked' = None
    /\ UNCHANGED <<now, started, orchVars, recoveryVars>>

\* lines 183-184 and the end of the `async with`
FinallyAndRelease ==
    /\ active_requests' = active_requests - 1
    /\ LET r == release(sem_value, sem_waiters, sem_woken)
       IN /\ sem_value' = r.value
          /\ sem_woken' = r.woken
    /\ UNCHANGED sem_waiters

\* lines 180-182: the work returns, the request is logged; log_request raises
\* KeyError for a provider without a history
WorkReturns(c) ==
    /\ cpc[c] = "running"
    /\ IF cprovider[c] \in DOMAIN request_history
       THEN /\ request_history' = log_request(request_history, cprovider[c], now)
            /\ recorded' = log_request(recorded, cprovider[c], now)
            /\ api_stats' = _update_stats(api_stats, cprovider[c])
            /\ Leaves(c, "returned")
       ELSE /\ UNCHANGED <<request_history, recorded, api_stats>>
            /\ Leaves(c, "log_request raised")
    /\ FinallyAndRelease

\* line 180: the work raises
WorkRaises(c) ==
    /\ cpc[c] = "running"
    /\ Leaves(c, "work raised")
    /\ FinallyAndRelease
    /\ UNCHANGED <<request_history, recorded, api_stats>>

\* the caller's task is cancelled during asyncio.sleep
CancelSleeping(c) ==
    /\ cpc[c] = "sleeping"
    /\ Leaves(c, "cancelled sleeping")
    /\ UNCHANGED <<request_history, recorded, api_stats, sem_value, sem_waiters, sem_woken,
                   active_requests>>

\* ... while queued for a permit: its future is cancelled and leaves the queue
CancelQueued(c) ==
    /\ cpc[c] = "acquiring"
    /\ c \notin sem_woken
    /\ sem_waiters' = Remove(sem_waiters, c)
    /\ Leaves(c, "cancelled queued")
    /\ UNCHANGED <<request_history, recorded, api_stats, sem_value, sem_woken,
                   active_requests>>

\* ... after its future was resolved but before it resumed: acquire puts the
\* permit back and wakes the next waiter
CancelGranted(c) ==
    /\ cpc[c] = "acquiring"
    /\ c \in sem_woken
    /\ LET w == WakeWhilePositive(sem_value + 1, Remove(sem_waiters, c), sem_woken \ {c})
       IN /\ sem_value' = w.value
          /\ sem_woken' = w.woken
    /\ sem_waiters' = Remove(sem_waiters, c)
    /\ Leaves(c, "cancelled granted")
    /\ UNCHANGED <<request_history, recorded, api_stats, active_requests>>

\* ... during `await coro`
CancelRunning(c) ==
    /\ cpc[c] = "running"
    /\ Leaves(c, "cancelled running")
    /\ FinallyAndRelease
    /\ UNCHANGED <<request_history, recorded, api_stats>>

NextConc ==
    \/ Elapse
    \/ \E c \in Callers, provider \in CallerProviders : Execute(c, provider)
    \/ \E c \in Callers : Wake(c)
    \/ \E c \in Callers : Granted(c)
    \/ \E c \in Callers : WorkReturns(c)
    \/ \E c \in Callers : WorkRaises(c)
    \/ \E c \in Callers : CancelSleeping(c)
    \/ \E c \in Callers : CancelQueued(c)
    \/ \E c \in Callers : CancelGranted(c)
    \/ \E c \in Callers : CancelRunning(c)

(***************************************************************************)
(* core/error_recovery.py: CircuitBreaker.  Callers of call() interleave   *)
(* at `await coro_func(...)`.                                              *)
(***************************************************************************)
FailureThreshold == 2  \* the largest failure_threshold given to the constructor
BreakerTimeout == 60   \* timeout, in seconds (the constructor's default)
BreakerCallers == 2    \* tasks that call CircuitBreaker.call
MaxBreakerCalls == 5   \* calls explored

timeout == BreakerTimeout
BCallers == 1..BreakerCallers

\* line 200: Exception("Circuit breaker is OPEN - API temporarily unavailable")
CircuitOpenError ==
    [type |-> "Exception",
     args |-> <<"Circuit breaker is OPEN - API temporarily unavailable">>,
     is_exception |-> TRUE]

\* lines 220-226
_should_attempt_reset_late(failed_at, t) ==
    IF IsNone(failed_at) THEN TRUE ELSE t - failed_at[1] > timeout
_should_attempt_reset(failed_at, t) ==
    IF IsNone(failed_at) THEN TRUE
    ELSE LET elapsed == t - failed_at[1] IN elapsed >= timeout

\* line 214
ThresholdExceeded(count, threshold) == count > threshold
ThresholdReached(count, threshold) == count >= threshold

\* lines 204-207: the state and the count after a call returned
AfterSuccessKeepsCount(st, count) ==
    IF st = "HALF_OPEN" THEN [state |-> "CLOSED", failure_count |-> count]
    ELSE [state |-> st, failure_count |-> count]
AfterSuccessResetsCount(st, count) ==
    [state |-> IF st = "HALF_OPEN" THEN "CLOSED" ELSE st, failure_count |-> 0]
AfterSuccess(st, count) ==
    IF st = "HALF_OPEN" THEN [state |-> "CLOSED", failure_count |-> 0]
    ELSE [state |-> st, failure_count |-> count]

InitBreakerWith(threshold) ==
    /\ failure_threshold = threshold
    /\ state = "CLOSED"
    /\ failure_count = 0
    /\ last_failure_time = None
    /\ bpc = [c \in BCallers |-> "idle"]
    /\ breaker_calls = 0
    /\ failed_calls = 0
    /\ trial_invocations = 0
    /\ last_call = None

InitBreaker == InitBreakerWith(FailureThreshold)

\* the fields of the breaker as a step finds them
BreakerFields ==
    [state |-> state, failure_count |-> failure_count, last_failure_time |-> last_failure_time]

Step(c, outcome, error) ==
    last_call' = Some([caller |-> c, outcome |-> outcome, error |-> error, at |-> now,
                       before |-> BreakerFields])

BreakerOnly == UNCHANGED <<now, orchVars, rateVars, concVars, retryVars, handlerVars, laterVars>>

\* lines 195-200: a call finds the breaker OPEN before the timeout and raises
CallRejected(c) ==
    /\ bpc[c] = "idle"
    /\ breaker_calls < MaxBreakerCalls
    /\ state = "OPEN"
    /\ ~_should_attempt_reset(last_failure_time, now)
    /\ breaker_calls' = breaker_calls + 1
    /\ Step(c, "rejected", Some(CircuitOpenError))
    /\ UNCHANGED <<failure_threshold, state, failure_count, last_failure_time, bpc,
                   failed_calls, trial_invocations>>
    /\ BreakerOnly

\* lines 195-203: a call passes the gate and awaits the operation
CallInvokes(c) ==
    /\ bpc[c] = "idle"
    /\ breaker_calls < MaxBreakerCalls
    /\ state = "OPEN" => _should_attempt_reset(last_failure_time, now)
    /\ breaker_calls' = breaker_calls + 1
    /\ state' = IF state = "OPEN" THEN "HALF_OPEN" ELSE state
    /\ trial_invocations' = IF state' = "HALF_OPEN" THEN trial_invocations + 1 ELSE 0
    /\ bpc' = [bpc EXCEPT ![c] = "operation"]
    /\ Step(c, "invoked", None)
    /\ UNCHANGED <<failure_threshold, failure_count, last_failure_time, failed_calls>>
    /\ BreakerOnly

\* lines 203-208: the operation returns
OperationReturns(c) ==
    /\ bpc[c] = "operation"
    /\ LET after == AfterSuccess(state, failure_count)
       IN /\ state' = after.state
          /\ failure_count' = after.failure_count
    /\ failed_calls' = IF state = "HALF_OPEN" THEN 0 ELSE failed_calls
    /\ trial_invocations' = IF state' = "HALF_OPEN" THEN trial_invocations ELSE 0
    /\ bpc' = [bpc EXCEPT ![c] = "idle"]
    /\ Step(c, "returned", None)
    /\ UNCHANGED <<failure_threshold, last_failure_time, breaker_calls>>
    /\ BreakerOnly

\* lines 210-218: the operation raises an Exception, which is raised again
OperationRaises(c, e) ==
    /\ bpc[c] = "operation"
    /\ failure_count' = failure_count + 1
    /\ last_failure_time' = Some(now)
    /\ state' = IF ThresholdReached(failure_count', failure_threshold) THEN "OPEN" ELSE state
    /\ failed_calls' = failed_calls + 1
    /\ trial_invocations' = IF state' = "HALF_OPEN" THEN trial_invocations ELSE 0
    /\ bpc' = [bpc EXCEPT ![c] = "idle"]
    /\ Step(c, "raised", Some(e))
    /\ UNCHANGED <<failure_threshold, breaker_calls>>
    /\ BreakerOnly

\* the caller's task is cancelled while it awaits the operation: CancelledError
\* is no Exception and passes through call() untouched
OperationCancelled(c) ==
    /\ bpc[c] = "operation"
    /\ bpc' = [bpc EXCEPT ![c] = "idle"]
    /\ Step(c, "cancelled", None)
    /\ UNCHANGED <<failure_threshold, state, failure_count, last_failure_time,
                   breaker_calls, failed_calls, trial_invocations>>
    /\ BreakerOnly

NextBreaker ==
    \/ Elapse
    \/ \E c \in BCallers : CallRejected(c)
    \/ \E c \in BCallers : CallInvokes(c)
    \/ \E c \in BCallers : OperationReturns(c)
    \/ \E c \in BCallers, e \in Exceptions : OperationRaises(c, e)
    \/ \E c \in BCallers : OperationCancelled(c)

(***************************************************************************)
(* core/error_recovery.py: RetryStrategy.  Delays are in hundredths of a   *)
(* second.                                                                 *)
(***************************************************************************)
MaxRetries == 3        \* the largest max_retries given to the constructor
MaxAttempt == 8        \* the largest small attempt number given to calculate_delay
JitterParts == 2       \* random.uniform draws 0, 1/JitterParts, ... of its range
FloatMaxExponent == 1024    \* 2.0 ** n is no float from n = 1024 on
Saturated == 30000     \* a power this large exceeds every max_delay explored

\* lines 24-34: the defaults 3, 1.0, 60.0, 2.0
DefaultStrategy ==
    [max_retries |-> 3, base_delay |-> 100, max_delay |-> 6000, exponential_base |-> 2]

Strategies ==
    [max_retries : 0..MaxRetries, base_delay : {100, 7000}, max_delay : {6000},
     exponential_base : {1, 2}]

OverflowError == [type |-> "OverflowError", args |-> <<"Numerical result out of range">>,
                  is_exception |-> TRUE]
TypeError == [type |-> "TypeError", args |-> <<"exceptions must derive from BaseException">>,
              is_exception |-> TRUE]

\* exponential_base ** attempt for a float base of 1.0 or 2.0, raising
\* OverflowError when the result is no float; large results are cut at Saturated
PowOverflows(base, n) == base = 2 /\ n >= FloatMaxExponent

RECURSIVE Pow(_, _)
Pow(base, n) ==
    IF n = 0 THEN 1
    ELSE LET half == Pow(base, n \div 2)
         IN Min(Saturated, half * half * (IF n % 2 = 1 THEN base ELSE 1))

\* line 42
Capped(total, max_delay) == Min(total, max_delay)

\* lines 36-43, with the jitter drawn as `j` parts of its range: the delay
\* returned, or the exception raised
calculate_delay(st, n, j) ==
    IF PowOverflows(st.exponential_base, n)
    THEN [raised |-> Some(OverflowError), delay |-> None]
    ELSE LET delay == st.base_delay * Pow(st.exponential_base, n)
             jitter == ((delay \div 10) * j) \div JitterParts
             total_delay == Capped(delay + jitter, st.max_delay)
         IN [raised |-> None, delay |-> Some(total_delay)]

\* line 63: last_error = e
RememberFirst(previous, e) == IF IsNone(previous) THEN Some(e) ELSE previous
Remember(previous, e) == Some(e)

\* the exception object the attempt numbered `n` raises, of class `e`
Raised(e, n) == [id |-> n, type |-> e.type, args |-> e.args, is_exception |-> e.is_exception]

InitRetryWith(st) ==
    /\ strategy = st
    /\ rpc = "idle"
    /\ attempt = 0
    /\ last_error = None
    /\ attempt_errors = <<>>
    /\ slept = <<>>
    /\ retry_outcome = None
    /\ computed = None

InitRetry == InitRetryWith(DefaultStrategy)

RetryOnly == UNCHANGED <<now, orchVars, rateVars, concVars, breakerVars, handlerVars, laterVars>>

\* a call of calculate_delay(n) made directly, outside execute_with_retry
CalculateDelay(n, j) ==
    /\ rpc = "idle"
    /\ computed' = Some([attempt |-> n, jitter |-> j, outcome |-> calculate_delay(strategy, n, j)])
    /\ UNCHANGED <<strategy, rpc, attempt, last_error, attempt_errors, slept, retry_outcome>>
    /\ RetryOnly

\* lines 52-57: execute_with_retry is called and awaits the first attempt
ExecuteWithRetry ==
    /\ rpc = "idle"
    /\ strategy.max_retries > 0
    /\ rpc' = "attempting"
    /\ computed' = None
    /\ UNCHANGED <<strategy, attempt, last_error, attempt_errors, slept, retry_outcome>>
    /\ RetryOnly

\* lines 52-54, 72: with max_retries = 0 the loop is empty and `raise None`
\* raises TypeError
ExecuteWithoutAttempts ==
    /\ rpc = "idle"
    /\ strategy.max_retries = 0
    /\ rpc' = "done"
    /\ retry_outcome' = Some([kind |-> "raised", error |-> Raised(TypeError, 0)])
    /\ computed' = None
    /\ UNCHANGED <<strategy, attempt, last_error, attempt_errors, slept>>
    /\ RetryOnly

\* lines 57-60
AttemptReturns ==
    /\ rpc = "attempting"
    /\ rpc' = "done"
    /\ retry_outcome' = Some([kind |-> "returned", error |-> Raised(TypeError, 0)])
    /\ UNCHANGED <<strategy, attempt, last_error, attempt_errors, slept, computed>>
    /\ RetryOnly

\* lines 62-68: an attempt that is not the last raises; the delay is computed
\* and slept
AttemptRaises(e, j) ==
    /\ rpc = "attempting"
    /\ attempt < strategy.max_retries - 1
    /\ LET d == calculate_delay(strategy, attempt, j)
       IN /\ IsNone(d.raised)
          /\ slept' = Append(slept, d.delay[1])
          /\ computed' = Some([attempt |-> attempt, jitter |-> j, outcome |-> d])
    /\ last_error' = Remember(last_error, Raised(e, attempt + 1))
    /\ attempt_errors' = Append(attempt_errors, Raised(e, attempt + 1))
    /\ rpc' = "sleeping"
    /\ UNCHANGED <<strategy, attempt, retry_outcome>>
    /\ RetryOnly

\* line 68: the sleep ends, the loop goes on to the next attempt
SleepEndsSameAttempt ==
    /\ rpc = "sleeping"
    /\ rpc' = "attempting"
    /\ UNCHANGED <<strategy, attempt, last_error, attempt_errors, slept, retry_outcome, computed>>
    /\ RetryOnly
SleepEnds ==
    /\ rpc = "sleeping"
    /\ attempt' = attempt + 1
    /\ rpc' = "attempting"
    /\ UNCHANGED <<strategy, last_error, attempt_errors, slept, retry_outcome, computed>>
    /\ RetryOnly

\* lines 62-72: the last attempt raises; the loop ends and last_error is raised
LastAttemptRaises(e) ==
    /\ rpc = "attempting"
    /\ ~(attempt < strategy.max_retries - 1)
    /\ last_error' = Remember(last_error, Raised(e, attempt + 1))
    /\ attempt_errors' = Append(attempt_errors, Raised(e, attempt + 1))
    /\ retry_outcome' = Some([kind |-> "raised", error |-> last_error'[1]])
    /\ rpc' = "done"
    /\ UNCHANGED <<strategy, attempt, slept, computed>>
    /\ RetryOnly

\* the caller's task is cancelled during an attempt or a sleep: CancelledError
\* is no Exception and leaves execute_with_retry at once
RetryCancelled ==
    /\ rpc \in {"attempting", "sleeping"}
    /\ rpc' = "done"
    /\ retry_outcome' = Some([kind |-> "cancelled", error |-> Raised(TypeError, 0)])
    /\ UNCHANGED <<strategy, attempt, last_error, attempt_errors, slept, computed>>
    /\ RetryOnly

AttemptNumbers == 0..MaxAttempt \cup {FloatMaxExponent - 1, FloatMaxExponent}

NextRetry ==
    \/ \E n \in AttemptNumbers, j \in 0..JitterParts : CalculateDelay(n, j)
    \/ ExecuteWithRetry
    \/ ExecuteWithoutAttempts
    \/ AttemptReturns
    \/ \E e \in Exceptions, j \in 0..JitterParts : AttemptRaises(e, j)
    \/ SleepEnds
    \/ \E e \in Exceptions : LastAttemptRaises(e)
    \/ RetryCancelled

(***************************************************************************)
(* core/error_recovery.py: ErrorHandler.  The log file holds no file       *)
(* ("missing"), a file that cannot be opened ("unreadable"), text that is  *)
(* no JSON ("text"), a JSON value that is no list ("object"), or a JSON    *)
(* list ("list") with its items.                                           *)
(***************************************************************************)
MaxHandlers == 2       \* ErrorHandler instances on the one workspace
MaxLogged == 3         \* log_error calls explored

Handlers == 1..MaxHandlers

File(kind, items) == [kind |-> kind, items |-> items]
EmptyHistory == File("list", <<>>)

\* lines 93-102: the record of a log_error call (the traceback left out)
error_entry(error, severity, context, t) ==
    [timestamp |-> t, error_type |-> error.type, error_message |-> Str(error),
     severity |-> severity, context |-> context, recoverable |-> TRUE]

\* the arguments given to log_error
LogInputs ==
    {[error |-> TimeoutError, severity |-> "CRITICAL", context |-> "Executing"],
     [error |-> ValueError, severity |-> "LOW", context |-> "api call"]}

\* a record written by an earlier run
EarlierRecord == error_entry(ValueError, "HIGH", "Analyzing", 0)

\* what the log file may hold when a handler is constructed
InitialLogFiles ==
    {File("missing", <<>>), File("unreadable", <<>>), File("text", <<>>),
     File("object", <<>>), File("list", <<>>), File("list", <<EarlierRecord>>)}

\* lines 157-164: error_history after load_error_history, from [] of line 81
load_error_history(file) ==
    IF file.kind \in {"missing", "unreadable", "text"} THEN EmptyHistory
    ELSE file

\* lines 148-155: the file after _save_error_log, when the write succeeds
_save_error_log(history) == history

InitHandlerWith(file) ==
    /\ error_log_file = file
    /\ handler_history = [h \in Handlers |-> None]
    /\ logged = <<>>
    /\ save_failed = FALSE
    /\ handler_step = None

InitHandler == InitHandlerWith(File("missing", <<>>))

HandlerOnly == UNCHANGED <<now, orchVars, rateVars, concVars, breakerVars, retryVars, laterVars>>

HandlerStep(h, op) ==
    handler_step' = Some([handler |-> h, op |-> op, file_before |-> error_log_file,
                          history_before |-> handler_history[h]])

\* lines 78-82: ErrorHandler(workspace_dir)
Construct(h) ==
    /\ IsNone(handler_history[h])
    /\ handler_history' = [handler_history EXCEPT ![h] = Some(load_error_history(error_log_file))]
    /\ HandlerStep(h, "constructed")
    /\ UNCHANGED <<error_log_file, logged, save_failed>>
    /\ HandlerOnly

\* lines 84-110: log_error appends the record and saves the whole history
LogError(h, in) ==
    /\ ~IsNone(handler_history[h])
    /\ handler_history[h][1].kind = "list"
    /\ Len(logged) < MaxLogged
    /\ LET entry == error_entry(in.error, in.severity, in.context, now)
           history == File("list", Append(handler_history[h][1].items, entry))
       IN /\ handler_history' = [handler_history EXCEPT ![h] = Some(history)]
          /\ logged' = Append(logged, entry)
          /\ error_log_file' = _save_error_log(history)
    /\ HandlerStep(h, "logged")
    /\ UNCHANGED save_failed
    /\ HandlerOnly

\* lines 104, 148-155: the record is appended but the file cannot be written;
\* _save_error_log prints a warning and log_error returns
LogErrorUnsaved(h, in) ==
    /\ ~IsNone(handler_history[h])
    /\ handler_history[h][1].kind = "list"
    /\ Len(logged) < MaxLogged
    /\ LET entry == error_entry(in.error, in.severity, in.context, now)
           history == File("list", Append(handler_history[h][1].items, entry))
       IN /\ handler_history' = [handler_history EXCEPT ![h] = Some(history)]
          /\ logged' = Append(logged, entry)
    /\ save_failed' = TRUE
    /\ HandlerStep(h, "logged unsaved")
    /\ UNCHANGED error_log_file
    /\ HandlerOnly

\* line 104: error_history was loaded as a JSON value that is no list, and
\* self.error_history.append raises AttributeError
LogErrorRaises(h, in) ==
    /\ ~IsNone(handler_history[h])
    /\ handler_history[h][1].kind # "list"
    /\ HandlerStep(h, "log_error raised")
    /\ UNCHANGED <<error_log_file, handler_history, logged, save_failed>>
    /\ HandlerOnly

NextHandler ==
    \/ \E h \in Handlers : Construct(h)
    \/ \E h \in Handlers, in \in LogInputs : LogError(h, in)
    \/ \E h \in Handlers, in \in LogInputs : LogErrorUnsaved(h, in)
    \/ \E h \in Handlers, in \in LogInputs : LogErrorRaises(h, in)

(***************************************************************************)
(* The asyncio event loop that runs create_project coroutines and          *)
(* wait_if_needed callers as tasks.  One thread runs one task at a time,   *)
(* from one suspension to the next.  create_project awaits only            *)
(* coroutines that never suspend, and crew.kickoff() is an ordinary call:  *)
(* the task keeps the thread from its start until it returns.              *)
(***************************************************************************)
LoopProjects == 2      \* create_project tasks on the loop
LoopWaiters == 2       \* wait_if_needed tasks on the loop
MaxSleeps == 2         \* sleeps a waiter may make

ProjectTasks == 1..LoopProjects
WaiterTasks == (LoopProjects + 1)..(LoopProjects + LoopWaiters)
LoopTasks == ProjectTasks \cup WaiterTasks

\* a task the loop would run as soon as the thread is free
Runnable(t) == loop_status[t] \in {"pending", "ready"}

InitLoop ==
    /\ loop_status = [t \in LoopTasks |-> "pending"]
    /\ loop_thread = None
    /\ loop_sleeps = [t \in LoopTasks |-> 0]

LoopOnly == UNCHANGED <<now, orchVars, rateVars, concVars, breakerVars, retryVars, handlerVars,
                        burstVars, statsVars, complexityVars, qualityVars>>

\* master_orchestrator.py lines 36-71, 479-501: the loop runs the task; it goes
\* through phases 1-4 without suspending and calls crew.kickoff()
ProjectRuns(p) ==
    /\ IsNone(loop_thread)
    /\ loop_status[p] = "pending"
    /\ loop_status' = [loop_status EXCEPT ![p] = "kickoff"]
    /\ loop_thread' = Some(p)
    /\ UNCHANGED loop_sleeps
    /\ LoopOnly

\* lines 501-516, 73-117: kickoff returns or raises; create_project runs to its
\* return and the thread goes back to the loop
KickoffEnds(p) ==
    /\ loop_status[p] = "kickoff"
    /\ loop_status' = [loop_status EXCEPT ![p] = "done"]
    /\ loop_thread' = None
    /\ UNCHANGED loop_sleeps
    /\ LoopOnly

\* rate_limiting.py lines 88-94: the loop runs a wait_if_needed task up to its
\* return, or up to its next asyncio.sleep
WaiterRuns(w, admitted) ==
    /\ IsNone(loop_thread)
    /\ Runnable(w)
    /\ admitted \/ loop_sleeps[w] < MaxSleeps
    /\ loop_status' = [loop_status EXCEPT ![w] = IF admitted THEN "done" ELSE "sleeping"]
    /\ loop_sleeps' = [loop_sleeps EXCEPT ![w] = IF admitted THEN @ ELSE @ + 1]
    /\ UNCHANGED loop_thread
    /\ LoopOnly

\* line 94: the time of an asyncio.sleep is over
SleepIsOver(w) ==
    /\ loop_status[w] = "sleeping"
    /\ loop_status' = [loop_status EXCEPT ![w] = "ready"]
    /\ UNCHANGED <<loop_thread, loop_sleeps>>
    /\ LoopOnly

NextLoop ==
    \/ \E p \in ProjectTasks : ProjectRuns(p)
    \/ \E p \in ProjectTasks : KickoffEnds(p)
    \/ \E w \in WaiterTasks, admitted \in BOOLEAN : WaiterRuns(w, admitted)
    \/ \E w \in WaiterTasks : SleepIsOver(w)

\* the loop runs every task that stays runnable, and time passes; nothing
\* makes the engine return
LoopFairness ==
    /\ \A p \in ProjectTasks : WF_vars(ProjectRuns(p))
    /\ \A w \in WaiterTasks : WF_vars(\E admitted \in BOOLEAN : WaiterRuns(w, admitted))
    /\ \A w \in WaiterTasks : WF_vars(SleepIsOver(w))

(***************************************************************************)
(* core/rate_limiting.py: admission checks made one after the other by a   *)
(* caller that sleeps between its bursts.                                  *)
(***************************************************************************)
MaxBurst == 4          \* admission checks per provider and second

InitBurst == burst = [p \in DOMAIN rate_limits |-> <<>>]

\* lines 43-66: one more check_rate_limit(provider) in the same second
BurstCheck(provider) ==
    /\ Len(burst[provider]) < MaxBurst
    /\ LET r == check_rate_limit(request_history, provider, now)
       IN /\ request_history' = r.request_history
          /\ checked' = Some([provider |-> provider, at |-> now, answer |-> r.answer])
          /\ burst' = [burst EXCEPT ![provider] = Append(@, r.answer)]
    /\ UNCHANGED <<now, recorded, api_stats, orchVars, concVars, breakerVars, retryVars,
                   handlerVars, loopVars, statsVars,
                   complexityVars, qualityVars>>

\* the caller sleeps 61 seconds
BurstSleeps ==
    /\ now + Window + 1 <= MaxTicks * SleepCap
    /\ now' = now + Window + 1
    /\ checked' = None
    /\ burst' = [p \in DOMAIN rate_limits |-> <<>>]
    /\ UNCHANGED <<request_history, recorded, api_stats, orchVars, concVars, breakerVars,
                   retryVars, handlerVars, loopVars, statsVars,
                   complexityVars, qualityVars>>

NextBurst ==
    \/ \E provider \in DOMAIN rate_limits : BurstCheck(provider)
    \/ \E provider \in DOMAIN rate_limits : LogRequest(provider)
    \/ BurstSleeps

(***************************************************************************)
(* core/rate_limiting.py: log_request and the statistics file.  The        *)
(* directory <workspace>/.orchestrator is there ("directory"), is not      *)
(* there and can be made ("missing"), is not there and cannot be made      *)
(* because the workspace is read-only ("forbidden"), or is a regular file  *)
(* ("file").  api_stats.json is not there, holds a JSON object ("valid"),  *)
(* holds no JSON ("corrupt"), holds a JSON list ("list"), or cannot be     *)
(* opened ("unwritable").                                                  *)
(***************************************************************************)
StatsStores ==
    {[dir |-> "missing", file |-> "missing"], [dir |-> "forbidden", file |-> "missing"],
     [dir |-> "file", file |-> "missing"]}
    \cup [dir : {"directory"}, file : {"missing", "valid", "corrupt", "list", "unwritable"}]

\* line 72: self.stats_file.parent.mkdir(parents=True, exist_ok=True) raises
\* PermissionError or FileExistsError
MkdirRaises(dir) == dir \in {"forbidden", "file"}

\* lines 118-136: whether _update_stats gets to the end of its try block
StatsPersisted(file) == file \in {"missing", "valid"}

InitStatsWith(store) ==
    /\ stats_dir = store.dir
    /\ stats_file = store.file
    /\ log_outcome = None

InitStats == InitStatsWith([dir |-> "missing", file |-> "missing"])

\* lines 68-74 and 118-136: log_request(provider) with success=True
LogRequestAndPersist(provider) ==
    /\ provider \in DOMAIN request_history
    /\ TotalRecorded < MaxRequests
    /\ request_history' = log_request(request_history, provider, now)
    /\ recorded' = log_request(recorded, provider, now)
    /\ checked' = None
    /\ IF MkdirRaises(stats_dir)
       THEN /\ log_outcome' = Some([provider |-> provider, at |-> now, ended |-> "raised",
                                    reported |-> FALSE])
            /\ UNCHANGED <<api_stats, stats_dir, stats_file>>
       ELSE /\ stats_dir' = "directory"
            /\ IF StatsPersisted(stats_file)
               THEN /\ api_stats' = _update_stats(api_stats, provider)
                    /\ stats_file' = "valid"
               ELSE UNCHANGED <<api_stats, stats_file>>
            /\ log_outcome' = Some([provider |-> provider, at |-> now, ended |-> "returned",
                                    reported |-> ~StatsPersisted(stats_file)])
    /\ UNCHANGED <<now, orchVars, concVars, breakerVars, retryVars, handlerVars, loopVars,
                   burstVars, complexityVars, qualityVars>>

NextStats ==
    \/ \E provider \in DOMAIN rate_limits : LogRequestAndPersist(provider)
    \/ Elapse

(***************************************************************************)
(* core/master_orchestrator.py: _assess_project_complexity.  A str is a    *)
(* sequence of one-character strings, so that `in`, lower() and join() are *)
(* computed character by character.                                        *)
(***************************************************************************)
MaxWords == 3          \* words in a description
MaxReqs == 1           \* custom requirements in a request

\* the words descriptions and custom requirements are made of
DescriptionWords ==
    {<<"b", "a", "s", "i", "c">>,
     <<"c", "r", "u", "d">>,
     <<"a", "p", "i">>,
     <<"A", "I">>,
     <<"s", "h", "o", "p">>,
     <<"H", "e", "l", "l", "o">>,
     <<"s", "c", "a", "l", "a", "b", "l", "e">>}
RequirementWords ==
    {<<"w", "o", "r", "l", "d">>,
     <<"A", "I">>,
     <<"E", "n", "t", "e", "r", "p", "r", "i", "s", "e">>,
     <<"m", "a", "i", "n", "t", "a", "i", "n">>}

\* lines 585-590; a dict iterates in insertion order
complexity_tiers == <<"simple", "medium", "complex", "advanced">>
complexity_indicators ==
    [simple   |-> {<<"b", "a", "s", "i", "c">>,
                     <<"s", "i", "m", "p", "l", "e">>,
                     <<"c", "r", "u", "d">>,
                     <<"h", "e", "l", "l", "o", " ", "w", "o", "r", "l", "d">>},
     medium   |-> {<<"a", "u", "t", "h", "e", "n", "t", "i", "c", "a", "t", "i", "o", "n">>,
                     <<"a", "p", "i">>,
                     <<"d", "a", "t", "a", "b", "a", "s", "e">>,
                     <<"r", "e", "s", "p", "o", "n", "s", "i", "v", "e">>},
     complex  |-> {<<"m", "i", "c", "r", "o", "s", "e", "r", "v", "i", "c", "e", "s">>,
                     <<"s", "c", "a", "l", "a", "b", "l", "e">>,
                     <<"e", "n", "t", "e", "r", "p", "r", "i", "s", "e">>,
                     <<"r", "e", "a", "l", "-", "t", "i", "m", "e">>},
     advanced |-> {<<"a", "i">>,
                     <<"b", "l", "o", "c", "k", "c", "h", "a", "i", "n">>,
                     <<"m", "a", "c", "h", "i", "n", "e", " ", "l", "e", "a", "r", "n", "i", "n", "g">>,
                     <<"d", "i", "s", "t", "r", "i", "b", "u", "t", "e", "d">>,
                     <<"i", "o", "t">>}]

\* str.lower() on the letters that occur
LowerCase == ("A" :> "a") @@ ("E" :> "e") @@ ("H" :> "h") @@ ("I" :> "i")
Lower(text) ==
    [i \in DOMAIN text |-> IF text[i] \in DOMAIN LowerCase THEN LowerCase[text[i]] ELSE text[i]]

\* " ".join(texts)
RECURSIVE Join(_)
Join(texts) ==
    IF texts = <<>> THEN <<>>
    ELSE IF Len(texts) = 1 THEN texts[1]
    ELSE texts[1] \o <<" ">> \o Join(Tail(texts))

\* indicator in text
Occurs(indicator, text) ==
    \E i \in 0..(Len(text) - Len(indicator)) : SubSeq(text, i + 1, i + Len(indicator)) = indicator

\* lines 592-594: f"{desc_lower} {req_text}"
CombinedText(desc, reqs) ==
    LET desc_lower == Lower(desc)
        req_text == IF reqs # <<>> THEN Lower(Join(reqs)) ELSE <<>>
    IN desc_lower \o <<" ">> \o req_text

\* lines 596-600
_assess_last_match(desc, reqs) ==
    LET combined_text == CombinedText(desc, reqs)
        matching == {k \in DOMAIN complexity_tiers :
                        \E indicator \in complexity_indicators[complexity_tiers[k]] :
                            Occurs(indicator, combined_text)}
    IN IF matching = {} THEN "medium"
       ELSE complexity_tiers[CHOOSE k \in matching : \A other \in matching : other <= k]
_assess_project_complexity(desc, reqs) ==
    LET combined_text == CombinedText(desc, reqs)
        matching == {k \in DOMAIN complexity_tiers :
                        \E indicator \in complexity_indicators[complexity_tiers[k]] :
                            Occurs(indicator, combined_text)}
    IN IF matching = {} THEN "medium"
       ELSE complexity_tiers[CHOOSE k \in matching : \A other \in matching : k <= other]

\* the descriptions and requirement lists explored
RECURSIVE Phrases(_, _)
Phrases(words, n) ==
    IF n = 0 THEN {<<>>}
    ELSE LET shorter == Phrases(words, n - 1)
         IN shorter \cup {Join(<<p, w>>) : p \in shorter \ {<<>>}, w \in words} \cup words
RECURSIVE Lists(_, _)
Lists(items, n) ==
    IF n = 0 THEN {<<>>}
    ELSE LET shorter == Lists(items, n - 1)
         IN shorter \cup {Append(l, x) : l \in shorter, x \in items}

BasicCrudApi == Join(<<<<"b", "a", "s", "i", "c">>, <<"c", "r", "u", "d">>, <<"a", "p", "i">>>>)

InitComplexityWith(desc, reqs) ==
    /\ description = desc
    /\ custom_reqs = reqs
    /\ complexity = None

InitComplexity == InitComplexityWith(BasicCrudApi, <<>>)

AssessProjectComplexity ==
    /\ IsNone(complexity)
    /\ complexity' = Some(_assess_project_complexity(description, custom_reqs))
    /\ UNCHANGED <<now, orchVars, rateVars, concVars, breakerVars, retryVars, handlerVars,
                   loopVars, burstVars, statsVars, qualityVars, description, custom_reqs>>

\* the same request is analysed again
AnalyseAgain ==
    /\ ~IsNone(complexity)
    /\ complexity' = None
    /\ UNCHANGED <<now, orchVars, rateVars, concVars, breakerVars, retryVars, handlerVars,
                   loopVars, burstVars, statsVars, qualityVars, description, custom_reqs>>

NextComplexity == AssessProjectComplexity \/ AnalyseAgain


(***************************************************************************)
(* core/master_orchestrator.py: _validate_and_finalize and                 *)
(* _calculate_quality_score.  An entry of the workspace is the directory   *)
(* it lies in ("" for the workspace itself) and its name, a sequence of    *)
(* characters.                                                             *)
(***************************************************************************)
\* what _setup_project_workspace leaves below the workspace (some of it)
SetupEntries ==
    {[parent |-> "", name |-> <<"s", "r", "c">>],
     [parent |-> "", name |-> <<"d", "o", "c", "s">>],
     [parent |-> "", name |-> <<".", "o", "r", "c", "h", "e", "s", "t", "r", "a", "t", "o", "r">>],
     [parent |-> ".orchestrator", name |-> <<"p", "r", "o", "j", "e", "c", "t", "_", "m", "e", "t", "a", "d", "a", "t", "a", ".", "j", "s", "o", "n">>]}
\* what the agents may have written
WrittenEntries ==
    {[parent |-> "", name |-> <<"R", "E", "A", "D", "M", "E", ".", "m", "d">>],
     [parent |-> "docs", name |-> <<"R", "E", "A", "D", "M", "E", ".", "m", "d">>],
     [parent |-> "src", name |-> <<"m", "a", "i", "n", ".", "p", "y">>],
     [parent |-> "docs", name |-> <<"g", "u", "i", "d", "e", ".", "r", "s", "t">>],
     [parent |-> "", name |-> <<"r", "e", "q", "u", "i", "r", "e", "m", "e", "n", "t", "s", ".", "t", "x", "t">>],
     [parent |-> "config", name |-> <<"p", "a", "c", "k", "a", "g", "e", ".", "j", "s", "o", "n">>],
     [parent |-> "src", name |-> <<"A", "p", "p", ".", "P", "Y">>],
     [parent |-> "src", name |-> <<".", "p", "y">>]}

\* pathlib: PurePath.suffix, from the last dot that is neither the first nor
\* the last character of the name
Suffix(name) ==
    LET dots == {i \in DOMAIN name : name[i] = "."}
    IN IF dots = {} THEN <<>>
       ELSE LET i == CHOOSE d \in dots : \A other \in dots : other <= d
            IN IF 1 < i /\ i < Len(name) THEN SubSeq(name, i, Len(name)) ELSE <<>>

\* lines 528-530
CodeSuffixes == {<<".", "p", "y">>, <<".", "j", "s">>, <<".", "t", "s">>, <<".", "j", "s", "x">>, <<".", "t", "s", "x">>, <<".", "j", "a", "v", "a">>, <<".", "c", "p", "p">>, <<".", "s", "o", "l">>}
DocSuffixes == {<<".", "m", "d">>, <<".", "t", "x", "t">>, <<".", "r", "s", "t">>}
ManifestNames == {<<"r", "e", "q", "u", "i", "r", "e", "m", "e", "n", "t", "s", ".", "t", "x", "t">>, <<"p", "a", "c", "k", "a", "g", "e", ".", "j", "s", "o", "n">>}
ReadmeName == <<"R", "E", "A", "D", "M", "E", ".", "m", "d">>

\* lines 662-676
_calculate_quality_score_no_readme(entries, code_files, doc_files) ==
    LET score == 50
                 + (IF code_files # {} THEN 20 ELSE 0)
                 + (IF doc_files # {} THEN 15 ELSE 0)
                 + (IF \E f \in entries : f.name \in ManifestNames THEN 5 ELSE 0)
    IN Min(score, 100)
_calculate_quality_score(entries, code_files, doc_files) ==
    LET score == 50
                 + (IF code_files # {} THEN 20 ELSE 0)
                 + (IF doc_files # {} THEN 15 ELSE 0)
                 + (IF [parent |-> "", name |-> ReadmeName] \in entries THEN 10 ELSE 0)
                 + (IF \E f \in entries : f.name \in ManifestNames THEN 5 ELSE 0)
    IN Min(score, 100)

InitQualityWith(written) ==
    /\ all_files = SetupEntries \cup written
    /\ quality_score = None

InitQuality == InitQualityWith({})

\* lines 527-533
ValidateAndFinalize ==
    /\ IsNone(quality_score)
    /\ LET code_files == {f \in all_files : Suffix(f.name) \in CodeSuffixes}
           doc_files == {f \in all_files : Suffix(f.name) \in DocSuffixes}
       IN quality_score' = Some(_calculate_quality_score(all_files, code_files, doc_files))
    /\ UNCHANGED <<now, orchVars, rateVars, concVars, breakerVars, retryVars, handlerVars,
                   loopVars, burstVars, statsVars, complexityVars, all_files>>

\* the same workspace is validated again
ValidateAgain ==
    /\ ~IsNone(quality_score)
    /\ quality_score' = None
    /\ UNCHANGED <<now, orchVars, rateVars, concVars, breakerVars, retryVars, handlerVars,
                   loopVars, burstVars, statsVars, complexityVars, all_files>>

NextQuality == ValidateAndFinalize \/ ValidateAgain

InitLater == InitLoop /\ InitBurst /\ InitStats /\ InitComplexity /\ InitQuality

InitRecovery ==
    /\ InitBreaker
    /\ InitRetry
    /\ InitHandler
    /\ InitLater

Init ==
    /\ now = 0
    /\ InitOrch
    /\ InitRate
    /\ InitConc
    /\ InitRecovery

Spec == Init /\ [][Next]_vars

(***************************************************************************)
(* Claims about create_project, checked under Spec.                        *)
(***************************************************************************)
\* the artifacts of phases 1-5, in the order they are produced
Artifacts == <<project_plan, workspace_path, agents, tasks, execution_result>>
ArtifactCount == Cardinality({i \in 1..Len(Artifacts) : ~IsNone(Artifacts[i])})

\* C1: the phases of an invocation start in the fixed order analysis, workspace
\* setup, team assembly, task creation, execution, validation; a phase starts
\* only when the artifacts of all earlier phases exist; an invocation that
\* ends Completed has run all six, each once.
C1_PhaseOrder ==
    /\ IsPrefix(phases, PhaseOrder)
    /\ ~premature
    /\ \A k \in 2..Len(phases) : \A i \in 1..(k - 1) : ~IsNone(Artifacts[i])
    /\ pc = "Completed" => phases = PhaseOrder

C1_Witness == pc = "Completed" /\ phases = PhaseOrder /\ calls = 2

\* C2: when a phase raises an Exception no later phase runs (no artifact
\* beyond the failing phase exists), create_project returns success=False
\* with the project id and str(error), and the error does not leave
\* create_project; only an exception that is not an Exception does.
C2_FailureResult ==
    /\ pc = "Failed" =>
          /\ ~IsNone(raised) /\ raised[1].is_exception
          /\ ArtifactCount = Len(phases) - 1
          /\ ~IsNone(result)
          /\ result[1].success = FALSE
          /\ result[1].project_id = project_id
          /\ result[1].error = Some(Str(raised[1]))
    /\ (~IsNone(raised) /\ raised[1].is_exception) => pc = "Failed"
    /\ pc = "Propagated" => (~IsNone(raised) /\ ~raised[1].is_exception /\ IsNone(result))

C2_Witness ==
    /\ pc = "Failed"
    /\ phases = SubSeq(PhaseOrder, 1, 3)
    /\ result[1].success = FALSE
    /\ result[1].error = Some("invalid value")

\* C3 (as claimed): when the Execution Engine raises during the Executing
\* phase the invocation is not reported Completed and its result has
\* success=False.
C3_EngineFailureReported ==
    engine = "raised" =>
        /\ pc # "Completed"
        /\ ~IsNone(result) => result[1].success = FALSE

\* C4 (as claimed): when create_project ends Failed the error log holds a
\* CRITICAL record whose kind is the error's type and whose context names the
\* failing phase.
C4_ErrorRecorded ==
    pc = "Failed" =>
        \E i \in DOMAIN error_history :
            /\ error_history[i].severity = "CRITICAL"
            /\ error_history[i].error_type = raised[1].type
            /\ error_history[i].context = Last(phases)

\* C5 (as claimed): a failure result carries a non-empty error message and the
\* partial workspace path; when workspace setup had completed that path is the
\* directory it created, which still holds the fixed subdirectories.
C5_FailureCarriesMessageAndPath ==
    pc = "Failed" =>
        /\ result[1].error # Some("")
        /\ ~IsNone(result[1].partial_workspace)
        /\ ~IsNone(workspace_path) =>
              /\ result[1].partial_workspace = workspace_path
              /\ workspace_path[1] \in DOMAIN fs
              /\ Directories \subseteq fs[workspace_path[1]].dirs

\* C6 (as claimed): any two invocations get distinct project ids, and no
\* workspace is written by two invocations.
C6_DistinctProjects ==
    /\ \A i, j \in DOMAIN issued : i # j => issued[i] # issued[j]
    /\ \A path \in DOMAIN fs : Cardinality(fs[path].writers) <= 1

(***************************************************************************)
(* SpecTasks: _create_project_tasks applied to every team of at most       *)
(* MaxTeam distinct agents, for a project type with and one without a      *)
(* user-interface task.                                                    *)
(***************************************************************************)
MaxTeam == 5

TeamRoles == {"system_architect", "security_architect", "backend_developer", "data_engineer",
              "frontend_developer", "qa_engineer", "devops_engineer"}

Teams == UNION {Orderings(S) : S \in {T \in SUBSET TeamRoles : Cardinality(T) <= MaxTeam}}

InitTasks ==
    /\ now = 0
    /\ \E team \in Teams, type \in {WebApplication, ComputerVision} :
          /\ requirements = Some([type |-> Some(type), custom_requirements |-> <<>>])
          /\ project_id = Some(_generate_project_id(requirements[1], 0))
          /\ issued = <<project_id[1]>>
          /\ project_plan = Some(_analyze_project_requirements(requirements[1],
                                                             InitialProjectTemplates))
          /\ workspace_path = Some(PathJoin(workspace_base, project_id[1]))
          /\ fs = WriteMetadata(MakeDirectories(<<>>, workspace_path[1], 1),
                                workspace_path[1], project_id[1], project_plan[1])
          /\ agents = Some(team)
    /\ calls = 1
    /\ pc = "BuildingTaskGraph"
    /\ tasks = None
    /\ execution_result = None
    /\ raised = None
    /\ phases = SubSeq(PhaseOrder, 1, 3)
    /\ premature = FALSE
    /\ engine = "idle"
    /\ result = None
    /\ execution_stats = [successful_projects |-> 0, failed_projects |-> 0]
    /\ error_history = <<>>
    /\ project_templates = InitialProjectTemplates
    /\ InitRate
    /\ InitConc
    /\ InitRecovery

NextTasks ==
    \/ CreateTasks
    \/ StartExecution

SpecTasks == InitTasks /\ [][NextTasks]_vars

SpecRate == Init /\ [][NextRate]_vars

SpecConc == Init /\ [][NextConc]_vars

\* every caller names the same rate-limited provider and runs its work to the
\* end; a caller is cancelled only during a sleep of wait_if_needed
NextWait ==
    \/ Elapse
    \/ \E c \in Callers : Execute(c, "openrouter")
    \/ \E c \in Callers : Wake(c)
    \/ \E c \in Callers : Granted(c)
    \/ \E c \in Callers : WorkReturns(c)
    \/ \E c \in Callers : CancelSleeping(c)

SpecWait == Init /\ [][NextWait]_vars

\* the requests are all recorded in the first instant and none afterwards;
\* time passes, and the event loop resumes a caller whose sleep is over.  There
\* are as many callers as permits, so that admission is all they wait for.
DrainCallers == 1..max_concurrent

RecordedAtStart(provider) ==
    /\ now = 0
    /\ LogRequest(provider)

NextDrain ==
    \/ Elapse
    \/ \E provider \in DOMAIN rate_limits : RecordedAtStart(provider)
    \/ \E c \in DrainCallers : Execute(c, "openrouter")
    \/ \E c \in DrainCallers : Wake(c)

DrainFairness ==
    /\ WF_vars(Elapse)
    /\ \A c \in DrainCallers : WF_vars(Wake(c))

SpecDrain == Init /\ [][NextDrain]_vars /\ DrainFairness

\* ConcurrencyManager(rate_limiter, max_concurrent_requests) built with any
\* number of permits up to the default, every work coroutine finishing and
\* the event loop resuming every task whose future was resolved
InitAnyPermits ==
    /\ now = 0
    /\ InitOrch
    /\ InitRate
    /\ \E max_concurrent_requests \in 1..max_concurrent : InitConcWith(max_concurrent_requests)
    /\ InitRecovery

\* (a caller is either running or queued, so one condition per caller says
\* both: its work ends, and it resumes once its future is resolved)
PermitFairness ==
    \A c \in Callers : WF_vars(WorkReturns(c) \/ WorkRaises(c) \/ Granted(c))

\* the callers use a provider the rate limiter has no limit for, so that
\* none of them is held back before the semaphore, and the clock stands still
NextPermits ==
    \/ \E c \in Callers : Execute(c, "local")
    \/ \E c \in Callers : Granted(c)
    \/ \E c \in Callers : WorkReturns(c)
    \/ \E c \in Callers : WorkRaises(c)
    \/ \E c \in Callers : CancelQueued(c)
    \/ \E c \in Callers : CancelGranted(c)
    \/ \E c \in Callers : CancelRunning(c)

SpecPermits == InitAnyPermits /\ [][NextPermits]_vars /\ PermitFairness

\* the steps create_project takes by itself once it is called: every phase but
\* the return of crew.kickoff(), which is the engine's to take
OrchestratorStep ==
    \/ Analyze
    \/ \E e \in Exceptions : AnalyzeRaises(e)
    \/ SetupWorkspace
    \/ \E e \in Exceptions, made \in BOOLEAN : SetupWorkspaceRaises(e, made)
    \/ /\ pc = "AssemblingTeam"
       /\ \/ \E additional \in Additional : AssembleTeam(additional)
          \/ \E e \in Exceptions, additional \in Additional : AssembleTeamRaises(e, additional)
    \/ CreateTasks
    \/ \E e \in Exceptions : CreateTasksRaises(e)
    \/ StartExecution
    \/ Validate
    \/ \E e \in Exceptions : ValidateRaises(e)

\* create_project keeps running while it has a step to take; nothing makes
\* the engine return
SpecLive == Init /\ [][Next]_vars /\ WF_vars(OrchestratorStep)

\* a breaker constructed with any failure_threshold from 1 up
InitAnyBreaker ==
    /\ now = 0
    /\ InitOrch
    /\ InitRate
    /\ InitConc
    /\ \E threshold \in 1..FailureThreshold : InitBreakerWith(threshold)
    /\ InitRetry
    /\ InitHandler
    /\ InitLater

SpecBreaker == InitAnyBreaker /\ [][NextBreaker]_vars

\* a strategy constructed with any of the parameters explored
InitAnyRetry ==
    /\ now = 0
    /\ InitOrch
    /\ InitRate
    /\ InitConc
    /\ InitBreaker
    /\ \E st \in Strategies : InitRetryWith(st)
    /\ InitHandler
    /\ InitLater

SpecRetry == InitAnyRetry /\ [][NextRetry]_vars

\* handlers constructed on a workspace whose log file holds anything
InitAnyLogFile ==
    /\ now = 0
    /\ InitOrch
    /\ InitRate
    /\ InitConc
    /\ InitBreaker
    /\ InitRetry
    /\ \E file \in InitialLogFiles : InitHandlerWith(file)
    /\ InitLater

SpecHandler == InitAnyLogFile /\ [][NextHandler]_vars

\* project_templates in which a project type is registered with no roles, so
\* that create_agent_team returns an empty team for it
TemplatesWithEmptyTeam == (SrvTool :> <<>>) @@ InitialProjectTemplates

InitEmptyTeam ==
    /\ now = 0
    /\ InitOrchWith(TemplatesWithEmptyTeam)
    /\ InitRate
    /\ InitConc
    /\ InitRecovery

SpecTeam == InitEmptyTeam /\ [][Next]_vars

\* log_request on a workspace whose statistics directory and file are in any state
InitAnyStats ==
    /\ now = 0
    /\ InitOrch
    /\ InitRate
    /\ InitConc
    /\ InitBreaker
    /\ InitRetry
    /\ InitHandler
    /\ InitLoop
    /\ InitBurst
    /\ \E store \in StatsStores : InitStatsWith(store)
    /\ InitComplexity
    /\ InitQuality

SpecStats == InitAnyStats /\ [][NextStats]_vars

\* any description and any custom requirements
InitAnyRequest ==
    /\ now = 0
    /\ InitOrch
    /\ InitRate
    /\ InitConc
    /\ InitBreaker
    /\ InitRetry
    /\ InitHandler
    /\ InitLoop
    /\ InitBurst
    /\ InitStats
    /\ \E desc \in Phrases(DescriptionWords, MaxWords), reqs \in Lists(RequirementWords, MaxReqs) :
           InitComplexityWith(desc, reqs)
    /\ InitQuality

SpecComplexity == InitAnyRequest /\ [][NextComplexity]_vars

\* any set of files written by the agents
InitAnyWorkspace ==
    /\ now = 0
    /\ InitOrch
    /\ InitRate
    /\ InitConc
    /\ InitBreaker
    /\ InitRetry
    /\ InitHandler
    /\ InitLoop
    /\ InitBurst
    /\ InitStats
    /\ InitComplexity
    /\ \E written \in SUBSET WrittenEntries : InitQualityWith(written)

SpecQuality == InitAnyWorkspace /\ [][NextQuality]_vars

\* bursts of admission checks, with requests logged in between or not
SpecBurst == Init /\ [][NextBurst]_vars

\* create_project tasks and wait_if_needed tasks on one event loop
SpecLoop == Init /\ [][NextLoop]_vars /\ LoopFairness

\* C7: in the task list handed to the Execution Engine every task's context
\* names only tasks that stand strictly earlier in the list, so no task
\* depends on itself or on a later task.
C7_ContextEarlier ==
    (engine = "running" \/ ~IsNone(tasks)) =>
        \A i \in 1..Len(tasks[1]) :
            \A k \in 1..Len(tasks[1][i].context) :
                \E j \in 1..(i - 1) : tasks[1][j].id = tasks[1][i].context[k]

\* a list of six tasks is handed over: the user-interface task depends on the
\* three before it, and two tasks follow it
C7_Witness ==
    /\ engine = "running"
    /\ Len(tasks[1]) = 6
    /\ tasks[1][4].kind = "ui"
    /\ tasks[1][4].context = <<1, 2, 3>>
    /\ tasks[1][6].context = <<1, 2, 3, 4, 5>>

(***************************************************************************)
(* Claims about the RateLimiter, checked under SpecRate.                   *)
(***************************************************************************)
\* the requests logged for the provider of the last check that were at most
\* `age` seconds old, or less than `age` seconds old, when the check was made
LoggedWithin(age) ==
    {i \in DOMAIN recorded[checked[1].provider] :
        checked[1].at - recorded[checked[1].provider][i] <= age}
LoggedLessThan(age) ==
    {i \in DOMAIN recorded[checked[1].provider] :
        checked[1].at - recorded[checked[1].provider][i] < age}

\* C8 (as claimed): for a configured provider with calls_per_minute = N,
\* check_rate_limit returns false as long as N logged requests are not yet
\* more than 60 seconds old, and true once fewer than N are.
C8_FalseUntilOlderThanWindow ==
    (~IsNone(checked) /\ checked[1].provider \in DOMAIN rate_limits) =>
        (checked[1].answer = FALSE <=>
            Cardinality(LoggedWithin(Window))
                >= rate_limits[checked[1].provider].calls_per_minute)

\* C8 (amended): for a configured provider with calls_per_minute = N,
\* check_rate_limit returns false exactly when at least N logged requests
\* are less than 60 seconds old at the time of the call: a request stops
\* counting when it is exactly 60 seconds old.
C8_FalseWhileYoungerThanWindow ==
    (~IsNone(checked) /\ checked[1].provider \in DOMAIN rate_limits) =>
        (checked[1].answer = FALSE <=>
            Cardinality(LoggedLessThan(Window))
                >= rate_limits[checked[1].provider].calls_per_minute)

\* exactly N requests were logged and each is exactly 60 seconds old at a
\* check, which drops them all and answers true
C8_Witness ==
    /\ ~IsNone(checked)
    /\ checked[1].provider = "openrouter"
    /\ checked[1].answer = TRUE
    /\ Len(recorded.openrouter) = CallsPerMinute
    /\ \A i \in DOMAIN recorded.openrouter : checked[1].at - recorded.openrouter[i] = Window
    /\ request_history.openrouter = <<>>

(***************************************************************************)
(* Claims about ConcurrencyManager.execute, checked under SpecConc.        *)
(***************************************************************************)
Running == {c \in Callers : cpc[c] = "running"}

\* C9: under any interleaving of callers of execute, active_requests is
\* never below 0 and never above max_concurrent.
C9_ActiveWithinBounds ==
    /\ active_requests >= 0
    /\ active_requests <= max_concurrent

\* all permits are taken, a caller queues behind them
C9_Witness ==
    /\ active_requests = max_concurrent
    /\ Cardinality(Running) = max_concurrent
    /\ sem_waiters # <<>>

\* C10: every exit from execute gives back the permit and undoes the
\* increment of active_requests: the callers doing work are counted exactly,
\* each holds one permit, and when no call is in progress every permit is
\* free and active_requests is 0.
C10_ExitsReleaseEverything ==
    /\ active_requests = Cardinality(Running)
    /\ sem_value + Cardinality(Running) + Cardinality(sem_woken) = max_concurrent
    /\ (\A c \in Callers : cpc[c] = "idle") =>
          /\ sem_value = max_concurrent
          /\ active_requests = 0
          /\ sem_waiters = <<>>

\* every call explored has ended, the last one cancelled after a permit had
\* been handed to it, and nothing is held
C10_Witness ==
    /\ \A c \in Callers : cpc[c] = "idle"
    /\ started = MaxCalls
    /\ last_exit = "cancelled granted"
    /\ sem_value = max_concurrent
    /\ active_requests = 0

(***************************************************************************)
(* Claims about the CircuitBreaker, checked under SpecBreaker.             *)
(***************************************************************************)
\* C11: counting the failed calls since the breaker was CLOSED with
\* failure_count 0, the call that fails as the failure_threshold-th leaves
\* the breaker OPEN, a call that fails earlier does not, and the breaker is
\* CLOSED exactly as long as fewer calls have failed.
C11_OpensAtThreshold ==
    /\ (~IsNone(last_call) /\ last_call[1].outcome = "raised") =>
          (state = "OPEN" <=> failed_calls >= failure_threshold)
    /\ state = "CLOSED" <=> failed_calls < failure_threshold

\* the failure_threshold-th failure of a breaker with threshold above 1 has
\* just opened it
C11_Witness ==
    /\ ~IsNone(last_call)
    /\ last_call[1].outcome = "raised"
    /\ last_call[1].before.state = "CLOSED"
    /\ failure_threshold > 1
    /\ failed_calls = failure_threshold
    /\ state = "OPEN"

\* C12: a call that is rejected found the breaker OPEN less than timeout
\* seconds after last_failure_time, gets the circuit-open error (no error
\* of the operation), does not start the operation and changes no field;
\* a call that finds the breaker OPEN and starts the operation does so
\* timeout seconds or more after last_failure_time, as the trial call.
C12_RejectedBeforeTimeout ==
    ~IsNone(last_call) =>
        LET step == last_call[1]
        IN /\ step.outcome = "rejected" =>
                 /\ step.before.state = "OPEN"
                 /\ ~IsNone(step.before.last_failure_time)
                 /\ step.at - step.before.last_failure_time[1] < timeout
                 /\ step.error = Some(CircuitOpenError)
                 /\ CircuitOpenError \notin Exceptions
                 /\ bpc[step.caller] = "idle"
                 /\ BreakerFields = step.before
           /\ (step.outcome = "invoked" /\ step.before.state = "OPEN") =>
                 /\ step.at - step.before.last_failure_time[1] >= timeout
                 /\ state = "HALF_OPEN"
                 /\ bpc[step.caller] = "operation"

\* a call is rejected one clock sample before the timeout has elapsed
C12_Witness ==
    /\ ~IsNone(last_call)
    /\ last_call[1].outcome = "rejected"
    /\ last_call[1].at - last_failure_time[1] = timeout - SleepCap
    /\ state = "OPEN"

\* C13 (as claimed): while the breaker is HALF_OPEN at most one operation
\* has been started since it became HALF_OPEN.
C13_OneTrialAtATime ==
    state = "HALF_OPEN" => trial_invocations <= 1

\* C14: a call that returns while the breaker is HALF_OPEN leaves it CLOSED
\* with failure_count 0, and a call that raises while the breaker is
\* HALF_OPEN leaves it OPEN, for every failure_threshold from 1 up.
C14_TrialDecides ==
    (~IsNone(last_call) /\ last_call[1].before.state = "HALF_OPEN") =>
        /\ last_call[1].outcome = "returned" => (state = "CLOSED" /\ failure_count = 0)
        /\ last_call[1].outcome = "raised" => state = "OPEN"

\* the trial call of a breaker that had opened returned and closed it
C14_Witness ==
    /\ ~IsNone(last_call)
    /\ last_call[1].outcome = "returned"
    /\ last_call[1].before.state = "HALF_OPEN"
    /\ last_call[1].before.failure_count >= failure_threshold
    /\ state = "CLOSED"
    /\ failure_count = 0

(***************************************************************************)
(* Claims about the RetryStrategy, checked under SpecRetry.                *)
(***************************************************************************)
\* C15: when every one of the max_retries >= 1 attempts raised,
\* execute_with_retry raises the exception object of the last attempt: the
\* same object, of the same type, not wrapped.
C15_LastErrorRaised ==
    (~IsNone(retry_outcome) /\ retry_outcome[1].kind = "raised"
        /\ strategy.max_retries >= 1) =>
        /\ Len(attempt_errors) = strategy.max_retries
        /\ retry_outcome[1].error = attempt_errors[strategy.max_retries]
        /\ retry_outcome[1].error.id = strategy.max_retries

\* three attempts raised, the first and the last exceptions of different
\* types, and the third is what the caller gets
C15_Witness ==
    /\ ~IsNone(retry_outcome)
    /\ retry_outcome[1].kind = "raised"
    /\ strategy.max_retries = 3
    /\ Len(attempt_errors) = 3
    /\ attempt_errors[1].type # attempt_errors[3].type
    /\ retry_outcome[1].error = attempt_errors[3]

\* C16 (as claimed): for every attempt number n >= 0 and every jitter,
\* calculate_delay(n) returns a delay, and the delay is at most max_delay.
C16_DelayAtMostMax ==
    ~IsNone(computed) =>
        /\ IsNone(computed[1].outcome.raised)
        /\ computed[1].outcome.delay[1] <= strategy.max_delay

(***************************************************************************)
(* Claims about the ErrorHandler, checked under SpecHandler.               *)
(***************************************************************************)
IsSuffix(s, t) == Len(s) <= Len(t) /\ SubSeq(t, Len(t) - Len(s) + 1, Len(t)) = s

\* C17 (as claimed): as long as every save could write the file, the
\* persisted log is a list that ends with every record ever logged, in the
\* order logged, whichever instances logged them.
C17_LogKeepsEveryRecord ==
    (logged # <<>> /\ ~save_failed) =>
        /\ error_log_file.kind = "list"
        /\ IsSuffix(logged, error_log_file.items)

\* C18 (as claimed): a handler constructed on a log file that is missing,
\* unreadable or no valid record list starts with an empty history, and no
\* log_error call raises.
C18_BadLogStartsEmpty ==
    ~IsNone(handler_step) =>
        /\ (handler_step[1].op = "constructed"
              /\ handler_step[1].file_before.kind # "list") =>
                 handler_history[handler_step[1].handler] = Some(EmptyHistory)
        /\ handler_step[1].op # "log_error raised"

(***************************************************************************)
(* Claims about the Executing phase and cancellation.                      *)
(***************************************************************************)
\* C19 (as claimed): under SpecLive, a project that enters the Executing
\* phase always leaves it, whether or not the engine returns: create_project
\* reaches Completed or Failed, or at least is left by an interrupt.
C19_ExecutionAlwaysEnds ==
    (pc = "Executing") ~> (pc \in {"Completed", "Failed", "Propagated"})

\* C20 (as claimed): a create_project interrupted while it runs ends Failed,
\* with a failure result and a recorded error.
C20_CancelledProjectFails ==
    engine = "interrupted" =>
        /\ pc = "Failed"
        /\ ~IsNone(result)
        /\ error_history # <<>>

(***************************************************************************)
(* Claims about the event loop, checked under SpecLoop.                    *)
(***************************************************************************)
\* C21 (as claimed): while a project waits in crew.kickoff(), every task the
\* loop could run (another project, a rate-limiter wait whose sleep is over)
\* gets to run, whether or not that engine call returns.
C21_OthersRunDuringKickoff ==
    \A t \in LoopTasks :
        ((\E p \in ProjectTasks : loop_status[p] = "kickoff") /\ Runnable(t))
            ~> ~Runnable(t)

(***************************************************************************)
(* Claims about empty teams and empty task lists.                          *)
(***************************************************************************)
Started(ph) == ph \in Range(phases)

C23_EmptyTaskGraphFails ==
    (~IsNone(tasks) /\ tasks[1] = <<>>) =>
        /\ ~Started("Executing")
        /\ engine = "idle"
        /\ pc \in Ended => pc = "Failed"

(***************************************************************************)
(* Claims about re-running the workspace setup.                            *)
(***************************************************************************)
\* the metadata file _setup_project_workspace writes for the current invocation
CurrentMetadata ==
    Some([project_id |-> project_id[1], project_plan |-> Get(project_plan, None),
          status |-> "in_progress"])

\* C24: a workspace setup that runs on a workspace already set up for the same
\* project id and plan leaves the same set of workspaces, the same directory
\* set, and one metadata record with that id, that plan and status in_progress.
C24_SetupIsIdempotent ==
    [][LET path == PathJoin(workspace_base, project_id[1])
       IN (/\ pc = "SettingUpWorkspace"
           /\ pc' = "AssemblingTeam"
           /\ path \in DOMAIN fs
           /\ fs[path].dirs = Directories
           /\ fs[path].metadata = CurrentMetadata)
          => /\ DOMAIN fs' = DOMAIN fs
             /\ fs'[path].dirs = fs[path].dirs
             /\ Len(fs'[path].metadata) = 1
             /\ fs'[path].metadata = fs[path].metadata]_vars

\* the second invocation has set up the workspace the first one had set up and
\* filled, with the same id and, the templates being as they were, the same plan
C24_Witness ==
    /\ calls = 2
    /\ pc = "AssemblingTeam"
    /\ issued[1] = issued[2]
    /\ project_templates = InitialProjectTemplates
    /\ fs[workspace_path[1]].writers = {1, 2}
    /\ fs[workspace_path[1]].files # {}
    /\ fs[workspace_path[1]].metadata = CurrentMetadata

(***************************************************************************)
(* Claims about retrying the Execution Engine.                             *)
(***************************************************************************)
\* C25 (as claimed): once crew.kickoff() has raised, the invocation is still
\* in the Executing phase, where the engine is invoked again, or it has
\* ended Failed after the configured attempts; it never goes on to the
\* Validating phase on a raise.
C25_EngineIsRetried ==
    engine = "raised" =>
        /\ pc \in {"Executing", "Failed"}
        /\ ~Started("Validating")

(***************************************************************************)
(* Claims about bursts of admission checks, checked under SpecBurst.       *)
(***************************************************************************)
\* C26 (as claimed): for a provider for which nothing was logged, the checks
\* made within one second answer true up to the provider's calls_per_minute
\* and false from the next one on; the first check after a sleep of 61
\* seconds answers true again.
C26_BurstCutAtLimit ==
    \A p \in DOMAIN rate_limits :
        recorded[p] = <<>> =>
            \A k \in 1..Len(burst[p]) :
                burst[p][k] = (k <= rate_limits[p].calls_per_minute)

(***************************************************************************)
(* Claims about wait_if_needed, checked under SpecConc.                    *)
(***************************************************************************)
\* C27: a caller gets past wait_if_needed only in a step in which the
\* admission check for its provider answers true; a step that puts it to
\* sleep, at the call or after an earlier sleep, is one in which the check
\* answers false, and the sleep it starts is of 10 seconds at most.
C27_WaitsInShortSleeps ==
    [][\A c \in Callers :
          LET admitted == check_rate_limit(request_history, cprovider'[c], now).answer
          IN /\ (cpc[c] \in {"idle", "sleeping"} /\ cpc'[c] \in {"acquiring", "running"})
                   => admitted
             /\ (cpc[c] \in {"idle", "sleeping"} /\ cpc'[c] = "sleeping"
                   /\ <<cpc[c], wake_at[c]>> # <<cpc'[c], wake_at'[c]>>)
                   => (~admitted /\ wake_at'[c] - now <= SleepCap)
             /\ cpc[c] = "sleeping" => wake_at[c] - now <= SleepCap]_vars

\* a caller sleeps the full 10 seconds although the window frees later than that
C27_Witness ==
    \E c \in Callers :
        /\ cpc[c] = "sleeping"
        /\ wake_at[c] = now + SleepCap
        /\ _calculate_wait_time(request_history, cprovider[c], now) > SleepCap

(***************************************************************************)
(* Claims about log_request and the statistics file, under SpecStats.      *)
(***************************************************************************)
\* C28 (as claimed): whatever the state of the statistics directory and
\* file, a log_request call returns, and its timestamp is the last one of
\* the provider's window.
C28_LogRequestNeverRaises ==
    ~IsNone(log_outcome) =>
        /\ log_outcome[1].ended = "returned"
        /\ request_history[log_outcome[1].provider] # <<>>
        /\ Last(request_history[log_outcome[1].provider]) = log_outcome[1].at

\* C29  Acquiring a permit in ConcurrencyManager.execute is starvation-free:
\* when every work coroutine eventually finishes, a caller waiting for a
\* permit eventually stops waiting (it holds one, or was cancelled), and
\* permits go to the waiters in the order in which they started waiting: a
\* waiter is never handed a permit while one queued before it has none.
GrantedInQueueOrder ==
    \A i, j \in DOMAIN sem_waiters :
        (i < j /\ sem_waiters[j] \in sem_woken) => sem_waiters[i] \in sem_woken

C29_PermitsAreFair ==
    /\ []GrantedInQueueOrder
    /\ \A c \in Callers : (cpc[c] = "acquiring") ~> (cpc[c] # "acquiring")

C29_Witness ==
    /\ Len(sem_waiters) >= 2
    /\ sem_waiters[1] \in sem_woken
    /\ sem_waiters[2] \notin sem_woken
    /\ active_requests > 0

\* C30  _assess_project_complexity returns the first tier, in the order
\* simple, medium, complex, advanced, one of whose keywords occurs in the
\* lower-cased description followed by the custom requirements, and medium
\* when no tier has one; 'basic crud api' without custom requirements is
\* simple.
HasKeyword(tier) ==
    \E indicator \in complexity_indicators[tier] :
        Occurs(indicator, CombinedText(description, custom_reqs))

C30_FirstMatchingTierWins ==
    ~IsNone(complexity) =>
        LET order == <<"simple", "medium", "complex", "advanced">>
            answer == complexity[1]
        IN /\ (\A k \in 1..4 : ~HasKeyword(order[k])) => answer = "medium"
           /\ (\E k \in 1..4 : HasKeyword(order[k])) =>
                  \E k \in 1..4 : /\ answer = order[k]
                                  /\ HasKeyword(order[k])
                                  /\ \A earlier \in 1..(k - 1) : ~HasKeyword(order[earlier])
           /\ (description = BasicCrudApi /\ custom_reqs = <<>>) => answer = "simple"

C30_Witness ==
    /\ description = BasicCrudApi
    /\ custom_reqs = <<>>
    /\ complexity = Some("simple")

\* C31  The quality score is min(100, 50 + 20 if an entry with a code suffix
\* exists + 15 if one with a documentation suffix exists + 10 if README.md
\* exists at the top of the workspace + 5 if a requirements.txt or a
\* package.json exists), and so lies between 50 and 100.
Points(condition, points) == IF condition THEN points ELSE 0

C31_QualityScore ==
    ~IsNone(quality_score) =>
        /\ quality_score[1] =
              Min(100, 50
                       + Points(\E f \in all_files : Suffix(f.name) \in CodeSuffixes, 20)
                       + Points(\E f \in all_files : Suffix(f.name) \in DocSuffixes, 15)
                       + Points(\E f \in all_files : f.parent = "" /\ f.name = ReadmeName, 10)
                       + Points(\E f \in all_files : f.name \in ManifestNames, 5))
        /\ quality_score[1] \in 50..100

C31_Witness ==
    /\ quality_score = Some(100)
    /\ \E f \in all_files : f.parent = "src" /\ Suffix(f.name) \in CodeSuffixes

\* C32  When every request goes through ConcurrencyManager.execute, the work
\* invocations started for a provider within a trailing 60-second window never
\* exceed its calls_per_minute.  While less than one window has passed since
\* the start, every work started so far lies in the window: those that have
\* been recorded on return, and those still running.
RunningFor(p) == {c \in Callers : cpc[c] = "running" /\ cprovider[c] = p}

C32_WorkStartsWithinLimit ==
    now < Window =>
        \A p \in DOMAIN rate_limits :
            Len(recorded[p]) + Cardinality(RunningFor(p)) <= rate_limits[p].calls_per_minute

\* C33  execute acquires its permit before it waits for admission: a caller
\* waiting in wait_if_needed holds one of the max_concurrent permits, so the
\* permits that are out cover the sleeping callers as well as the running
\* ones and those just woken.
C33_SleepsHoldingPermit ==
    LET InState(st) == {c \in Callers : cpc[c] = st}
    IN InState("sleeping") # {} =>
           max_concurrent - sem_value
               >= Cardinality(InState("sleeping")) + Cardinality(InState("running"))
                  + Cardinality(sem_woken)

\* C34  execute_with_retry invokes the operation at most max_retries times,
\* returns the result of the first attempt that succeeds and makes no further
\* attempt, and sleeps once after every failed attempt but the max_retries-th:
\* max_retries - 1 sleeps when every attempt fails.
FailedBeforeLast == {k \in 1..Len(attempt_errors) : k < strategy.max_retries}

AttemptsAndSleepsCounted ==
    /\ Len(attempt_errors) <= strategy.max_retries
    /\ rpc \in {"attempting", "sleeping"} => attempt + 1 <= strategy.max_retries
    /\ Len(slept) = Cardinality(FailedBeforeLast)
    /\ rpc = "attempting" => Len(attempt_errors) = attempt
    /\ (~IsNone(retry_outcome) /\ retry_outcome[1].kind = "returned") =>
           (rpc = "done" /\ Len(attempt_errors) = attempt)
    /\ (~IsNone(retry_outcome) /\ retry_outcome[1].kind = "raised"
           /\ strategy.max_retries >= 1) => Len(slept) = strategy.max_retries - 1

C34_AttemptsAndSleeps ==
    /\ []AttemptsAndSleepsCounted
    /\ [][rpc = "done" => UNCHANGED <<rpc, attempt, attempt_errors, slept, retry_outcome>>]_vars

C34_Witness ==
    /\ ~IsNone(retry_outcome)
    /\ retry_outcome[1].kind = "returned"
    /\ strategy.max_retries = 3
    /\ Len(attempt_errors) = 2
    /\ Len(slept) = 2

\* C35  For a policy with base_delay > 0 and exponential_base >= 1, whatever
\* the jitter drawn, the delays calculate_delay(0), calculate_delay(1), ...
\* never decrease: each delay slept by execute_with_retry is at least the one
\* before it.
C35_DelaysNeverDecrease ==
    (strategy.base_delay > 0 /\ strategy.exponential_base >= 1) =>
        \A k \in 1..(Len(slept) - 1) : slept[k] <= slept[k + 1]

\* C36  A call that succeeds while the breaker is CLOSED changes neither
\* state nor failure_count: the failures add up across the successes between
\* them, and failure_count is the number of failures since the last reset,
\* consecutive or not.
C36_SuccessKeepsFailures ==
    /\ (~IsNone(last_call) /\ last_call[1].outcome = "returned"
           /\ last_call[1].before.state = "CLOSED") =>
          /\ state = "CLOSED"
          /\ failure_count = last_call[1].before.failure_count
          /\ last_failure_time = last_call[1].before.last_failure_time
    /\ failure_count = failed_calls

C36_Witness ==
    /\ ~IsNone(last_call)
    /\ last_call[1].outcome = "returned"
    /\ last_call[1].before.state = "CLOSED"
    /\ last_call[1].before.failure_count >= 1
    /\ failure_threshold > 1
    /\ failure_count >= 1

\* C37  create_agent_team leaves the factory's project_templates as they
\* were at construction: after any sequence of create_project calls every
\* project type has its original roles, and analysing the request of an
\* earlier call again gives the estimates that call got.
C37_TemplatesUnchanged ==
    /\ project_templates = InitialProjectTemplates
    /\ (~IsNone(requirements) /\ ~IsNone(project_plan)) =>
          _analyze_project_requirements(requirements[1], project_templates).estimated_agents
              = project_plan[1].estimated_agents

\* C38  Whatever the provider named, one with no request window included,
\* when the work coroutine has completed successfully execute returns the
\* work's result to its caller.
WorkCompleted == last_exit \in {"returned", "log_request raised"}

C38_ResultIsReturned == WorkCompleted => last_exit = "returned"

\* C39  For every max_retries >= 0, what execute_with_retry raises is an
\* exception that one of its attempts raised; with max_retries = 0 too it
\* does not fail with an error of its own.
C39_RaisesOnlyOperationErrors ==
    (~IsNone(retry_outcome) /\ retry_outcome[1].kind = "raised") =>
        retry_outcome[1].error \in Range(attempt_errors)

\* C40  When no further request is recorded for a provider, a caller blocked
\* in wait_if_needed for it eventually leaves the wait, and no sleep of its
\* lasts beyond the moment the recorded requests have left the 60-second
\* window.
SleepsEndWithWindow ==
    \A c \in Callers :
        cpc[c] = "sleeping" =>
            /\ recorded[cprovider[c]] # <<>>
            /\ wake_at[c] <= Last(recorded[cprovider[c]]) + Window

====
